---- MODULE Spec2Model ----
(***************************************************************************)
(* Credential lifecycle engine of the auth middleware: the OTP ledger, the *)
(* token ledger with its snapshot file, the host trust check and the       *)
(* request handlers of routes/auth.ts.                                     *)
(*                                                                         *)
(* Strings are sequences of one-character strings, so that toLowerCase,    *)
(* toUpperCase, trim, split and the regular expressions of the source are  *)
(* computed and not assumed.  Time is Date.now() in abstract ticks.        *)
(***************************************************************************)
EXTENDS Integers, Sequences, FiniteSets, TLC

VARIABLES
    now,          \* Date.now()
    env,          \* process.env: NODE_ENV, DOMAIN, ALLOWED_SUBDOMAINS
    proc,         \* "running" | "down" (died) | "exit0" | "exit1" (process.exit)
    otpStore,     \* OTPStore.store : Map<normalized email, OTPEntry>
    tokenStore,   \* TokenStore.store : Map<token, TokenEntry>
    isSaving,     \* TokenStore.isSaving
    savePc,       \* where the running saveToFile is suspended
    saveData,     \* jsonData of the running saveToFile while it is being written
    file,         \* PERSISTENCE_FILE on disk
    tmpFile,      \* PERSISTENCE_FILE + ".tmp" on disk
    nextToken,    \* tokens generateToken() has handed out so far
    mailQueue,    \* login POSTs suspended in "await sendOTPEmail"
    issued,       \* history: per identity, the code storeOTP stored last
    wrongGuesses, \* history: per identity, wrong codes tried since that storeOTP
    loggedOut,    \* history: per token a logout removed, "out"; "cycled" once
                  \* a callback of the auto-save timer has run to its end
                  \* since, with no save in progress; "restored" once a later
                  \* start of the process loaded it from the snapshot,
                  \* "revived" when it did so after such a cycle
    resp,         \* the request handled by the step just taken and its response
    shutPc,       \* where shutdown() is suspended, "none" before the signal
    shutData,     \* jsonData of the saveToFile that shutdown() awaits
    writable      \* whether PERSISTENCE_DIR can be written

\* the state of shutdown() and of the persistence directory
life == <<shutPc, shutData, writable>>

vars == <<now, env, proc, otpStore, tokenStore, isSaving, savePc, saveData,
          file, tmpFile, nextToken, mailQueue, issued, wrongGuesses, loggedOut,
          resp, shutPc, shutData, writable>>

----------------------------------------------------------------------------
(* Bounds of the model *)

MaxTime == 2
MaxTokens == 2
MaxMail == 1

(* Program constants.  The windows of the OTP ledger are read from the     *)
(* environment; the clock now counts in a unit that makes each window one  *)
(* tick: an entry made at tick t is live up to and including tick          *)
(* t + window.  No property below relates one window to another.           *)

OTP_EXPIRATION_MS == 1
MAX_ATTEMPTS == 3
OTP_REQUEST_COOLDOWN_MS == 1
TOKEN_EXPIRATION_MS == 1

----------------------------------------------------------------------------
(* Strings *)

Str0 == << >>

LetterPairs ==
    { <<"a", "A">>, <<"b", "B">>, <<"u", "U">>, <<"v", "V">>,
      <<"x", "X">>, <<"y", "Y">>, <<"z", "Z">>, <<"e", "E">>,
      <<"h", "H">>, <<"t", "T">>, <<"p", "P">>, <<"s", "S">> }

toLowerCaseChar(c) ==
    IF \E p \in LetterPairs : p[2] = c
    THEN (CHOOSE p \in LetterPairs : p[2] = c)[1]
    ELSE c

toUpperCaseChar(c) ==
    IF \E p \in LetterPairs : p[1] = c
    THEN (CHOOSE p \in LetterPairs : p[1] = c)[2]
    ELSE c

toLowerCase(s) == [i \in 1..Len(s) |-> toLowerCaseChar(s[i])]

toUpperCase(s) == [i \in 1..Len(s) |-> toUpperCaseChar(s[i])]

IsSpace(c) == c = " "

trim(s) ==
    LET keep == {i \in 1..Len(s) : ~IsSpace(s[i])}
    IN  IF keep = {} THEN Str0
        ELSE LET lo == CHOOSE i \in keep : \A j \in keep : i <= j
                 hi == CHOOSE i \in keep : \A j \in keep : j <= i
             IN  SubSeq(s, lo, hi)

\* s.split(sep): the pieces between the separators, in order, empty ones kept
RECURSIVE split(_, _)
split(s, sep) ==
    IF \A i \in 1..Len(s) : s[i] # sep
    THEN <<s>>
    ELSE LET i == CHOOSE k \in 1..Len(s) :
                      s[k] = sep /\ \A j \in 1..(k - 1) : s[j] # sep
         IN  <<SubSeq(s, 1, i - 1)>> \o split(SubSeq(s, i + 1, Len(s)), sep)

Elements(q) == {q[i] : i \in 1..Len(q)}

startsWith(s, prefix) ==
    Len(prefix) <= Len(s) /\ SubSeq(s, 1, Len(prefix)) = prefix

endsWith(s, suffix) ==
    Len(suffix) <= Len(s) /\ SubSeq(s, Len(s) - Len(suffix) + 1, Len(s)) = suffix

\* Map<K, V> as a function on the keys present (iteration order plays no part
\* in any operation of the ledgers)
MapSet(m, k, v) == [x \in (DOMAIN m) \cup {k} |-> IF x = k THEN v ELSE m[x]]

MapDelete(m, k) == [x \in (DOMAIN m) \ {k} |-> m[x]]

MapHas(m, k) == k \in DOMAIN m

EmptyMap == << >>

----------------------------------------------------------------------------
(* utils/subdomainValidator.ts *)

IsLabelChar(c) == c = "-" \/ \E p \in LetterPairs : c = p[1] \/ c = p[2]

\* DOMAIN.replace('.', '\\.') escapes the first dot only: every later dot of
\* DOMAIN stays a regular-expression wildcard.
FirstDot(d) ==
    IF \E i \in 1..Len(d) : d[i] = "."
    THEN CHOOSE i \in 1..Len(d) : d[i] = "." /\ \A j \in 1..(i - 1) : d[j] # "."
    ELSE 0

DomainCharMatches(d, i, c) ==
    IF d[i] = "." /\ i # FirstDot(d)
    THEN c # "\n"
    ELSE toLowerCaseChar(c) = toLowerCaseChar(d[i])

\* the last Len(d) characters of h match the pattern made from d
DomainSuffixMatches(h, d) ==
    /\ Len(h) >= Len(d)
    /\ \A i \in 1..Len(d) : DomainCharMatches(d, i, h[Len(h) - Len(d) + i])

\* p matches ([a-z0-9-]+\.)* under the i flag
LabelsPrefix(p) ==
    \/ Len(p) = 0
    \/ /\ p[Len(p)] = "."
       /\ p[1] # "."
       /\ \A i \in 1..Len(p) : p[i] = "." \/ IsLabelChar(p[i])
       /\ \A i \in 1..(Len(p) - 1) : ~(p[i] = "." /\ p[i + 1] = ".")

domainRegexTest(h, d) ==
    /\ DomainSuffixMatches(h, d)
    /\ LabelsPrefix(SubSeq(h, 1, Len(h) - Len(d)))

\* hostname.replace(/\.?DOMAIN$/i, '')
extractSubdomain(h, d) ==
    IF ~DomainSuffixMatches(h, d) THEN h
    ELSE LET k == Len(h) - Len(d)
         IN  IF k >= 1 /\ h[k] = "." THEN SubSeq(h, 1, k - 1) ELSE SubSeq(h, 1, k)

Decision(valid, sub, h, why) ==
    [isValid |-> valid, subdomain |-> sub, hostname |-> h, reason |-> why]

\* DOMAIN and ALLOWED_SUBDOMAINS of process.env; unset is the empty string
\* (DOMAIN is a reserved word of TLA+, so the parameter is named domain)
Star == <<"*">>
At == <<"@">>

validateSubdomain(hostname, domain, ALLOWED_SUBDOMAINS) ==
    IF hostname = Str0
    THEN Decision(FALSE, Str0, Str0, "No hostname provided")
    ELSE IF domain = Str0
    THEN Decision(TRUE, Str0, hostname, "No domain configured (development mode)")
    ELSE IF ~domainRegexTest(hostname, domain)
    THEN Decision(FALSE, Str0, hostname, "Hostname does not match domain pattern")
    ELSE LET subdomain == extractSubdomain(hostname, domain)
             allowedList == {trim(s) : s \in Elements(split(ALLOWED_SUBDOMAINS, ","))}
         IN  IF ALLOWED_SUBDOMAINS = Str0
             THEN Decision(TRUE, subdomain, hostname, "No subdomain allowlist configured")
             ELSE IF ALLOWED_SUBDOMAINS = Star
             THEN Decision(TRUE, subdomain, hostname, "")
             ELSE IF subdomain = Str0
             THEN IF Str0 \in allowedList \/ At \in allowedList
                  THEN Decision(TRUE, Str0, hostname, "")
                  ELSE Decision(FALSE, Str0, hostname, "Main domain not in allowlist")
             ELSE IF subdomain \in allowedList
             THEN Decision(TRUE, subdomain, hostname, "")
             ELSE Decision(FALSE, subdomain, hostname, "Subdomain not in allowlist")

----------------------------------------------------------------------------
(* OTPStore *)

\* createHash('sha256').update(code).digest('hex'): one digest per code and
\* no two codes with one digest
hashCode(code) == <<"sha256", code>>

\* Buffer.from(hash, 'hex').length of a SHA-256 digest
BufferLength(h) == IF h[1] = "sha256" THEN 32 ELSE 0

timingSafeEqual(a, b) == a = b

\* 'ABCDEFGHJKMNPQRSTUVWXYZ23456789'
CodeChars ==
    <<"A", "B", "C", "D", "E", "F", "G", "H", "J", "K", "M", "N", "P", "Q", "R",
      "S", "T", "U", "V", "W", "X", "Y", "Z", "2", "3", "4", "5", "6", "7", "8", "9">>

generateCode(bytes) == [i \in 1..6 |-> CodeChars[(bytes[i] % Len(CodeChars)) + 1]]

normalizeEmail(email) == trim(toLowerCase(email))

normalizeCode(code) == trim(toUpperCase(code))

\* canRequestOTP without a cooldown
canRequestOTPAlways(m, email, t) == [ok |-> TRUE, store |-> m]

\* canRequestOTP whose window ends one millisecond late
canRequestOTPStrict(m, email, t) ==
    LET normalizedEmail == normalizeEmail(email)
    IN  IF ~MapHas(m, normalizedEmail)
        THEN [ok |-> TRUE, store |-> m]
        ELSE LET entry == m[normalizedEmail]
             IN  IF t > entry.expiresAt
                 THEN [ok |-> TRUE, store |-> MapDelete(m, normalizedEmail)]
                 ELSE [ok |-> t - entry.lastRequestAt > OTP_REQUEST_COOLDOWN_MS,
                       store |-> m]

canRequestOTP(m, email, t) ==
    LET normalizedEmail == normalizeEmail(email)
    IN  IF ~MapHas(m, normalizedEmail)
        THEN [ok |-> TRUE, store |-> m]
        ELSE LET entry == m[normalizedEmail]
             IN  IF t > entry.expiresAt
                 THEN [ok |-> TRUE, store |-> MapDelete(m, normalizedEmail)]
                 ELSE [ok |-> t - entry.lastRequestAt >= OTP_REQUEST_COOLDOWN_MS,
                       store |-> m]

\* storeOTP that leaves a pending entry of the identity in place
storeOTPKeepOld(m, email, code, t) ==
    IF MapHas(m, normalizeEmail(email))
    THEN m
    ELSE MapSet(m, normalizeEmail(email),
                [codeHash |-> hashCode(normalizeCode(code)),
                 attempts |-> 0,
                 expiresAt |-> t + OTP_EXPIRATION_MS,
                 createdAt |-> t,
                 lastRequestAt |-> t])

storeOTP(m, email, code, t) ==
    MapSet(m, normalizeEmail(email),
           [codeHash |-> hashCode(normalizeCode(code)),
            attempts |-> 0,
            expiresAt |-> t + OTP_EXPIRATION_MS,
            createdAt |-> t,
            lastRequestAt |-> t])

\* verifyOTP that keeps the entry after a match
verifyOTPKeepsEntry(m, email, code, t) ==
    LET id == normalizeEmail(email)
    IN  IF ~MapHas(m, id)
        THEN [ok |-> FALSE, store |-> m]
        ELSE LET counted == MapSet(m, id, [m[id] EXCEPT !.attempts = @ + 1])
             IN  IF t > m[id].expiresAt
                 THEN [ok |-> FALSE, store |-> MapDelete(m, id)]
                 ELSE IF m[id].attempts >= MAX_ATTEMPTS
                 THEN [ok |-> FALSE, store |-> m]
                 ELSE [ok |-> timingSafeEqual(m[id].codeHash,
                                              hashCode(normalizeCode(code))),
                       store |-> counted]

\* verifyOTP that lets one more attempt through before it locks
verifyOTPLateLimit(m, email, code, t) ==
    LET id == normalizeEmail(email)
    IN  IF ~MapHas(m, id)
        THEN [ok |-> FALSE, store |-> m]
        ELSE LET counted == MapSet(m, id, [m[id] EXCEPT !.attempts = @ + 1])
             IN  IF t > m[id].expiresAt
                 THEN [ok |-> FALSE, store |-> MapDelete(m, id)]
                 ELSE IF m[id].attempts > MAX_ATTEMPTS
                 THEN [ok |-> FALSE, store |-> m]
                 ELSE IF timingSafeEqual(m[id].codeHash,
                                         hashCode(normalizeCode(code)))
                 THEN [ok |-> TRUE, store |-> MapDelete(counted, id)]
                 ELSE [ok |-> FALSE, store |-> counted]

\* verifyOTP that does not count a wrong guess
verifyOTPFreeGuess(m, email, code, t) ==
    LET id == normalizeEmail(email)
    IN  IF ~MapHas(m, id)
        THEN [ok |-> FALSE, store |-> m]
        ELSE IF t > m[id].expiresAt
        THEN [ok |-> FALSE, store |-> MapDelete(m, id)]
        ELSE IF m[id].attempts >= MAX_ATTEMPTS
        THEN [ok |-> FALSE, store |-> m]
        ELSE IF timingSafeEqual(m[id].codeHash, hashCode(normalizeCode(code)))
        THEN [ok |-> TRUE, store |-> MapDelete(m, id)]
        ELSE [ok |-> FALSE, store |-> m]

\* verifyOTP that refuses an expired entry and leaves it in the ledger
verifyOTPKeepsExpired(m, email, code, t) ==
    LET id == normalizeEmail(email)
    IN  IF ~MapHas(m, id)
        THEN [ok |-> FALSE, store |-> m]
        ELSE LET counted == MapSet(m, id, [m[id] EXCEPT !.attempts = @ + 1])
             IN  IF t > m[id].expiresAt
                 THEN [ok |-> FALSE, store |-> m]
                 ELSE IF m[id].attempts >= MAX_ATTEMPTS
                 THEN [ok |-> FALSE, store |-> m]
                 ELSE IF timingSafeEqual(m[id].codeHash,
                                         hashCode(normalizeCode(code)))
                 THEN [ok |-> TRUE, store |-> MapDelete(counted, id)]
                 ELSE [ok |-> FALSE, store |-> counted]

verifyOTP(m, email, code, t) ==
    LET normalizedEmail == normalizeEmail(email)
        normalizedCode == normalizeCode(code)
    IN  IF ~MapHas(m, normalizedEmail)
        THEN [ok |-> FALSE, store |-> m]
        ELSE LET entry == m[normalizedEmail]
                 counted == MapSet(m, normalizedEmail,
                                   [entry EXCEPT !.attempts = @ + 1])
                 expectedHash == entry.codeHash
                 actualHash == hashCode(normalizedCode)
             IN  IF t > entry.expiresAt
                 THEN [ok |-> FALSE, store |-> MapDelete(m, normalizedEmail)]
                 ELSE IF entry.attempts >= MAX_ATTEMPTS
                 THEN [ok |-> FALSE, store |-> m]
                 ELSE IF BufferLength(expectedHash) # BufferLength(actualHash)
                 THEN [ok |-> FALSE, store |-> counted]
                 ELSE IF timingSafeEqual(expectedHash, actualHash)
                 THEN [ok |-> TRUE, store |-> MapDelete(counted, normalizedEmail)]
                 ELSE [ok |-> FALSE, store |-> counted]

otpCleanup(m, t) == [k \in {x \in DOMAIN m : ~(t > m[x].expiresAt)} |-> m[k]]

----------------------------------------------------------------------------
(* TokenStore: the ledger in memory *)

\* a storeToken that keeps the address as it was typed
storeTokenAsTyped(m, token, email, type, t) ==
    MapSet(m, token,
           [email |-> email,
            type |-> type,
            expiresAt |-> t + TOKEN_EXPIRATION_MS,
            createdAt |-> t])

storeToken(m, token, email, type, t) ==
    MapSet(m, token,
           [email |-> normalizeEmail(email),
            type |-> type,
            expiresAt |-> t + TOKEN_EXPIRATION_MS,
            createdAt |-> t])

\* getEmail that never compares the type of the entry
getEmailAnyType(m, token, requiredType, t) ==
    IF ~MapHas(m, token)
    THEN [found |-> FALSE, email |-> Str0, store |-> m]
    ELSE IF t > m[token].expiresAt
    THEN [found |-> FALSE, email |-> Str0, store |-> MapDelete(m, token)]
    ELSE [found |-> TRUE, email |-> m[token].email, store |-> m]

\* getEmail that refuses an expired token and leaves it in the ledger
getEmailKeepsExpired(m, token, requiredType, t) ==
    IF ~MapHas(m, token)
    THEN [found |-> FALSE, email |-> Str0, store |-> m]
    ELSE IF t > m[token].expiresAt
    THEN [found |-> FALSE, email |-> Str0, store |-> m]
    ELSE IF requiredType # "" /\ m[token].type # requiredType
    THEN [found |-> FALSE, email |-> Str0, store |-> m]
    ELSE [found |-> TRUE, email |-> m[token].email, store |-> m]

\* requiredType "" stands for the parameter left out
getEmail(m, token, requiredType, t) ==
    IF ~MapHas(m, token)
    THEN [found |-> FALSE, email |-> Str0, store |-> m]
    ELSE LET entry == m[token]
         IN  IF t > entry.expiresAt
             THEN [found |-> FALSE, email |-> Str0, store |-> MapDelete(m, token)]
             ELSE IF requiredType # "" /\ entry.type # requiredType
             THEN [found |-> FALSE, email |-> Str0, store |-> m]
             ELSE [found |-> TRUE, email |-> entry.email, store |-> m]

\* removeToken that deletes nothing
removeTokenNone(m, token) == m

\* a removeToken that ends every token of the identity of the token
removeTokenOfIdentity(m, token) ==
    IF ~MapHas(m, token) THEN m
    ELSE LET keep == {k \in DOMAIN m : m[k].email # m[token].email}
         IN  [k \in keep |-> m[k]]

removeToken(m, token) == MapDelete(m, token)

\* a sweep that already removes the entry whose last millisecond has come
tokenCleanupEager(m, t) == [k \in {x \in DOMAIN m : t < m[x].expiresAt} |-> m[k]]

tokenCleanup(m, t) == [k \in {x \in DOMAIN m : ~(t > m[x].expiresAt)} |-> m[k]]

\* JavaScript truthiness of what getEmail returned (null and '' are falsy)
Truthy(r) == r.found /\ r.email # Str0

----------------------------------------------------------------------------
(* TokenStore: the snapshot file *)

Absent == [kind |-> "absent", version |-> 0, tokens |-> << >>]

\* a document whose text was cut short: JSON.parse throws on it
Partial == [kind |-> "partial", version |-> 0, tokens |-> << >>]

\* Array.from(this.store.entries()): the [token, entry] pairs of the map, one
\* after the other
RECURSIVE entries(_)
entries(m) ==
    IF DOMAIN m = {} THEN << >>
    ELSE LET k == CHOOSE x \in DOMAIN m : TRUE
         IN  <<<<k, m[k]>>>> \o entries(MapDelete(m, k))

\* JSON.stringify({version: 1, tokens: Array.from(this.store.entries())})
Serialize(m) == [kind |-> "json", version |-> 1, tokens |-> entries(m)]

\* for (const [token, entry] of data.tokens)
\*    if (entry.expiresAt > now) this.store.set(token, entry)
RECURSIVE loadEntries(_, _, _)
loadEntries(m, pairs, t) ==
    IF pairs = << >> THEN m
    ELSE loadEntries(IF Head(pairs)[2].expiresAt > t
                     THEN MapSet(m, Head(pairs)[1], Head(pairs)[2])
                     ELSE m,
                     Tail(pairs), t)

loadFromFile(m, f, t) ==
    IF f.kind = "absent" THEN m
    ELSE IF f.kind = "partial" THEN m
    ELSE IF f.version = 0 THEN m
    ELSE loadEntries(m, f.tokens, t)

----------------------------------------------------------------------------
(* Requests *)

Bearer == <<"Bearer">>

EmailU == <<"u", "@", "x", ".", "y">>
EmailUUpper == <<"U", "@", "X", ".", "y">>
EmailUSpaced == <<" ", "u", "@", "x", ".", "y">>
EmailV == <<"v", "@", "x", ".", "y">>
EmailNoDot == <<"u", "@", "x">>

\* addresses of the basic pattern, one of 254 characters and one of 255
EmailOfLength(n) == [i \in 1..n |-> IF i <= Len(EmailU) THEN EmailU[i] ELSE "y"]
EmailMax == EmailOfLength(254)
EmailTooLong == EmailOfLength(255)

DevCode == <<"A", "A", "A", "A", "A", "A">>
WrongCode == <<"Z", "Z", "Z", "Z", "Z", "Z">>

\* what crypto.randomBytes(6) may return
RandomBytes == { <<0, 1, 0, 1, 0, 1>>, <<32, 0, 0, 0, 0, 0>> }

HostApp == <<"a", ".", "x", ".", "y">>
HostOther == <<"b", ".", "x", ".", "y">>
HostBase == <<"x", ".", "y">>
HostForeign == <<"e", ".", "z">>

DomainXY == <<"x", ".", "y">>
AllowA == <<"a">>
AllowAtA == <<"@", ",", " ", "a">>

NoCookie == Str0
GarbageToken == <<"0">>

\* randomBytes(32).toString('hex'): a value never handed out before
generateToken(n) == <<ToString(n)>>

IssuedTokens == {generateToken(n) : n \in 1..(nextToken - 1)}

\* /^[^\s@]+@[^\s@]+\.[^\s@]+$/.test(email) && email.length <= 254
validateEmail(email) ==
    /\ \A i \in 1..Len(email) : ~IsSpace(email[i])
    /\ \E p \in 2..Len(email) :
          /\ email[p] = "@"
          /\ \A i \in 1..Len(email) : email[i] = "@" => i = p
          /\ \E d \in (p + 2)..(Len(email) - 1) : email[d] = "."
    /\ Len(email) <= 254

NoResp ==
    [op |-> "none", status |-> 0,
     host |-> Str0, cookie |-> Str0, auth |-> Str0, email |-> Str0, code |-> Str0,
     lookup |-> "none", xuser |-> Str0, location |-> "none",
     setCookie |-> Str0, clearCookie |-> FALSE, body |-> Str0,
     redirect |-> Str0, target |-> Str0]

----------------------------------------------------------------------------
(* routes/auth.ts: what each handler answers and what it does to the ledgers *)

Https == <<"h", "t", "t", "p", "s", ":", "/", "/">>
Http == <<"h", "t", "t", "p", ":", "/", "/">>
Localhost == <<"l", "o", "c", "a", "l", "h", "o", "s", "t">>
Digits == {"0", "1", "2", "3", "4", "5", "6", "7", "8", "9"}

\* the position of the first character of s that is in chars, Len(s) + 1
\* when there is none
firstIndexIn(s, chars) ==
    LET hits == {i \in 1..Len(s) : s[i] \in chars}
    IN  IF hits = {} THEN Len(s) + 1
        ELSE CHOOSE i \in hits : \A j \in hits : i <= j

\* s.lastIndexOf(c), 0 when there is none
lastIndexOf(s, c) ==
    LET hits == {i \in 1..Len(s) : s[i] = c}
    IN  IF hits = {} THEN 0
        ELSE CHOOSE i \in hits : \A j \in hits : j <= i

\* the URL parser of an http(s) URL, state by state: the scheme is cut off
\* and the slashes and backslashes that follow it are skipped
urlAfterScheme(s) ==
    LET tail == IF startsWith(s, Https)
                THEN SubSeq(s, Len(Https) + 1, Len(s))
                ELSE SubSeq(s, Len(Http) + 1, Len(s))
        solid == {i \in 1..Len(tail) : tail[i] \notin {"/", "\\"}}
    IN  IF solid = {} THEN Str0
        ELSE SubSeq(tail, CHOOSE i \in solid : \A j \in solid : i <= j, Len(tail))

\* the authority ends at the first "/", "\", "?" or "#"
urlAuthority(rest) == SubSeq(rest, 1, firstIndexIn(rest, {"/", "\\", "?", "#"}) - 1)

\* the userinfo ends at the last "@" of the authority
urlHostPort(authority) ==
    SubSeq(authority, lastIndexOf(authority, "@") + 1, Len(authority))

\* the port follows the first ":"
urlHost(hostport) == SubSeq(hostport, 1, firstIndexIn(hostport, {":"}) - 1)

urlPort(hostport) ==
    SubSeq(hostport, firstIndexIn(hostport, {":"}) + 1, Len(hostport))

\* new URL(s).hostname for an s that begins with "http://" or "https://":
\* the host is lower-cased; an empty host, a space in the host or a port
\* that is no number throws
URLHostname(s) ==
    LET hostport == urlHostPort(urlAuthority(urlAfterScheme(s)))
    IN  IF \/ urlHost(hostport) = Str0
           \/ \E i \in 1..Len(urlHost(hostport)) : IsSpace(urlHost(hostport)[i])
           \/ \E i \in 1..Len(urlPort(hostport)) :
                 urlPort(hostport)[i] \notin Digits
        THEN [ok |-> FALSE, hostname |-> Str0]
        ELSE [ok |-> TRUE, hostname |-> toLowerCase(urlHost(hostport))]

\* an absent redirect and the empty string are both the empty sequence
validateRedirectUrl(redirect, baseDomain) ==
    IF redirect = Str0
    THEN <<"/">>
    ELSE IF startsWith(redirect, <<"/">>) /\ ~startsWith(redirect, <<"/", "/">>)
    THEN redirect
    ELSE IF /\ baseDomain # Str0
            /\ startsWith(redirect, Https) \/ startsWith(redirect, Http)
            /\ LET url == URLHostname(redirect)
               IN  /\ url.ok
                   /\ \/ url.hostname = baseDomain
                      \/ endsWith(url.hostname, <<".">> \o baseDomain)
    THEN redirect
    ELSE <<"/">>

\* process.env.DOMAIN || 'localhost'
Domain(e) == IF e.domain = Str0 THEN Localhost ELSE e.domain

\* GET /login: the login page that carries the sanitized redirect
loginPage(e, redirect) ==
    [NoResp EXCEPT !.op = "loginPage", !.redirect = redirect, !.status = 200,
                   !.body = validateRedirectUrl(redirect, Domain(e))]

\* !validationResult.isValid && process.env.ALLOWED_SUBDOMAINS
\* a denial that does not ask whether an allow-list is configured
verifyDeniesUnlisted(validationResult, allowed) == ~validationResult.isValid

verifyDenies(validationResult, allowed) ==
    ~validationResult.isValid /\ allowed # Str0

\* GET /verify looking for an access token
verifyLookupAccess == "access"

\* GET /verify that looks the cookie up before it checks the host
verifyHandlerLookupFirst(m, t, e, host, cookie) ==
    LET validationResult == validateSubdomain(host, e.domain, e.allowedSubdomains)
        req == [NoResp EXCEPT !.op = "verify", !.host = host, !.cookie = cookie]
        r == getEmail(m, cookie, "session", t)
    IN  IF ~validationResult.isValid /\ e.allowedSubdomains # Str0
        THEN [resp |-> [req EXCEPT !.status = 403], tokens |-> r.store]
        ELSE IF cookie # Str0 /\ Truthy(r)
        THEN [resp |-> [req EXCEPT !.status = 200, !.lookup = "session",
                                   !.xuser = r.email],
              tokens |-> r.store]
        ELSE [resp |-> [req EXCEPT !.status = 302,
                                   !.lookup = IF cookie = Str0 THEN "none"
                                              ELSE "session",
                                   !.location = "login"],
              tokens |-> r.store]

\* the type GET /verify passes to tokenStore.getEmail
verifyLookupType == "session"

verifyHandler(m, t, e, host, cookie) ==
    LET validationResult == validateSubdomain(host, e.domain, e.allowedSubdomains)
        req == [NoResp EXCEPT !.op = "verify", !.host = host, !.cookie = cookie]
        r == getEmail(m, cookie, verifyLookupType, t)
    IN  IF verifyDenies(validationResult, e.allowedSubdomains)
        THEN [resp |-> [req EXCEPT !.status = 403], tokens |-> m]
        ELSE IF cookie = Str0
        THEN [resp |-> [req EXCEPT !.status = 302, !.location = "login"],
              tokens |-> m]
        ELSE IF Truthy(r)
        THEN [resp |-> [req EXCEPT !.status = 200, !.lookup = verifyLookupType,
                                   !.xuser = r.email],
              tokens |-> r.store]
        ELSE [resp |-> [req EXCEPT !.status = 302, !.lookup = verifyLookupType,
                                   !.location = "login"],
              tokens |-> r.store]

\* GET /user that asks the cookie first and the bearer token second
userHandlerCookieFirst(m, t, auth, cookie) ==
    LET req == [NoResp EXCEPT !.op = "user", !.auth = auth, !.cookie = cookie]
        parts == split(auth, " ")
        byBearer == getEmail(m, parts[2], "access", t)
        byCookie == getEmail(m, cookie, "session", t)
    IN  IF cookie # Str0 /\ Truthy(byCookie)
        THEN [resp |-> [req EXCEPT !.status = 200, !.lookup = "session",
                                   !.body = byCookie.email],
              tokens |-> byCookie.store]
        ELSE IF auth # Str0 /\ Len(parts) = 2 /\ parts[1] = Bearer
        THEN IF Truthy(byBearer)
             THEN [resp |-> [req EXCEPT !.status = 200, !.lookup = "access",
                                        !.body = byBearer.email],
                   tokens |-> byBearer.store]
             ELSE [resp |-> [req EXCEPT !.status = 401, !.lookup = "access"],
                   tokens |-> byBearer.store]
        ELSE [resp |-> [req EXCEPT !.status = 401], tokens |-> m]

userHandler(m, t, auth, cookie) ==
    LET req == [NoResp EXCEPT !.op = "user", !.auth = auth, !.cookie = cookie]
        parts == split(auth, " ")
        byBearer == getEmail(m, parts[2], "access", t)
        byCookie == getEmail(m, cookie, "session", t)
    IN  IF auth # Str0 /\ Len(parts) = 2 /\ parts[1] = Bearer
        THEN IF Truthy(byBearer)
             THEN [resp |-> [req EXCEPT !.status = 200, !.lookup = "access",
                                        !.body = byBearer.email],
                   tokens |-> byBearer.store]
             ELSE [resp |-> [req EXCEPT !.status = 401, !.lookup = "access"],
                   tokens |-> byBearer.store]
        ELSE IF cookie = Str0
        THEN [resp |-> [req EXCEPT !.status = 401], tokens |-> m]
        ELSE IF Truthy(byCookie)
        THEN [resp |-> [req EXCEPT !.status = 200, !.lookup = "session",
                                   !.body = byCookie.email],
              tokens |-> byCookie.store]
        ELSE [resp |-> [req EXCEPT !.status = 401, !.lookup = "session"],
              tokens |-> byCookie.store]

\* GET /access_token asking for an access token in the cookie
accessTokenLookupAccess == "access"

\* the type GET /access_token passes to tokenStore.getEmail
accessTokenLookupType == "session"

accessTokenHandler(m, t, cookie, fresh) ==
    LET req == [NoResp EXCEPT !.op = "access_token", !.cookie = cookie]
        r == getEmail(m, cookie, accessTokenLookupType, t)
    IN  IF cookie = Str0
        THEN [resp |-> [req EXCEPT !.status = 401], tokens |-> m, minted |-> FALSE]
        ELSE IF ~Truthy(r)
        THEN [resp |-> [req EXCEPT !.status = 401, !.lookup = accessTokenLookupType],
              tokens |-> r.store, minted |-> FALSE]
        ELSE [resp |-> [req EXCEPT !.status = 200, !.lookup = accessTokenLookupType,
                                   !.body = fresh],
              tokens |-> storeToken(r.store, fresh, r.email, "access", t),
              minted |-> TRUE]

\* setAuthCookie(res, token, email) of utils/template.ts
setAuthCookie(m, token, email, t) == storeToken(m, token, email, "session", t)

\* the two texts POST /code answers with status 400
EmailAndCodeRequired == <<"Email and code are required">>
InvalidOrExpiredCode == <<"Invalid or expired code. Please try again.">>

\* POST /code that tells a missing entry from the other causes
codeHandlerNamesCause(otps, m, t, email, code, fresh) ==
    LET req == [NoResp EXCEPT !.op = "code", !.email = email, !.code = code]
        v == verifyOTP(otps, email, code, t)
    IN  IF email = Str0 \/ code = Str0
        THEN [resp |-> [req EXCEPT !.status = 400, !.body = EmailAndCodeRequired],
              otps |-> otps, tokens |-> m, called |-> FALSE, minted |-> FALSE]
        ELSE IF v.ok
        THEN [resp |-> [req EXCEPT !.status = 302, !.location = "destination",
                                   !.setCookie = fresh],
              otps |-> v.store, tokens |-> setAuthCookie(m, fresh, email, t),
              called |-> TRUE, minted |-> TRUE]
        ELSE [resp |-> [req EXCEPT !.status = 400, !.location = "none",
                                   !.body = IF MapHas(otps, normalizeEmail(email))
                                            THEN InvalidOrExpiredCode
                                            ELSE <<"No code was requested.">>],
              otps |-> v.store, tokens |-> m, called |-> TRUE, minted |-> FALSE]

\* a POST /code that calls verifyOTP before it looks for the two fields
codeHandlerVerifiesFirst(otps, m, t, email, code, fresh) ==
    LET req == [NoResp EXCEPT !.op = "code", !.email = email, !.code = code]
        v == verifyOTP(otps, email, code, t)
    IN  IF email = Str0 \/ code = Str0
        THEN [resp |-> [req EXCEPT !.status = 400, !.body = EmailAndCodeRequired],
              otps |-> v.store, tokens |-> m, called |-> FALSE, minted |-> FALSE]
        ELSE IF v.ok
        THEN [resp |-> [req EXCEPT !.status = 302, !.location = "destination",
                                   !.setCookie = fresh],
              otps |-> v.store, tokens |-> setAuthCookie(m, fresh, email, t),
              called |-> TRUE, minted |-> TRUE]
        ELSE [resp |-> [req EXCEPT !.status = 400, !.location = "none",
                                   !.body = InvalidOrExpiredCode],
              otps |-> v.store, tokens |-> m, called |-> TRUE, minted |-> FALSE]

codeHandler(otps, m, t, email, code, fresh) ==
    LET req == [NoResp EXCEPT !.op = "code", !.email = email, !.code = code]
        v == verifyOTP(otps, email, code, t)
    IN  IF email = Str0 \/ code = Str0
        THEN [resp |-> [req EXCEPT !.status = 400, !.body = EmailAndCodeRequired],
              otps |-> otps, tokens |-> m, called |-> FALSE, minted |-> FALSE]
        ELSE IF v.ok
        THEN [resp |-> [req EXCEPT !.status = 302, !.location = "destination",
                                   !.setCookie = fresh],
              otps |-> v.store, tokens |-> setAuthCookie(m, fresh, email, t),
              called |-> TRUE, minted |-> TRUE]
        ELSE [resp |-> [req EXCEPT !.status = 400, !.location = "none",
                                   !.body = InvalidOrExpiredCode],
              otps |-> v.store, tokens |-> m, called |-> TRUE, minted |-> FALSE]

logoutHandler(m, cookie) ==
    LET req == [NoResp EXCEPT !.op = "logout", !.cookie = cookie]
    IN  [resp |-> [req EXCEPT !.status = 302, !.location = "login",
                              !.clearCookie = TRUE],
         tokens |-> IF cookie # Str0 THEN removeToken(m, cookie) ELSE m]

\* NODE_ENV = process.env.NODE_ENV || 'development'
NodeEnv(e) == IF e.nodeEnv = "" THEN "development" ELSE e.nodeEnv

\* POST /login up to its first suspension: "issue" tells whether storeOTP ran,
\* "mail" whether the handler now awaits sendOTPEmail
\* a POST /login that checks the cooldown and stores the code before it
\* looks at the shape of the address
loginHandlerStoresFirst(otps, t, e, email, bytes) ==
    LET req == [NoResp EXCEPT !.op = "login", !.email = email]
        c == canRequestOTP(otps, email, t)
        code == IF NodeEnv(e) = "development" THEN DevCode ELSE generateCode(bytes)
        stay == [otps |-> otps, issue |-> FALSE, mail |-> FALSE, code |-> Str0]
        stored == storeOTP(c.store, email, code, t)
    IN  IF email = Str0
        THEN [resp |-> [req EXCEPT !.status = 400]] @@ stay
        ELSE IF ~c.ok
        THEN [resp |-> [req EXCEPT !.status = 429]] @@ stay
        ELSE IF ~validateEmail(email)
        THEN [resp |-> [req EXCEPT !.status = 400], otps |-> stored,
              issue |-> FALSE, mail |-> FALSE, code |-> Str0]
        ELSE IF NodeEnv(e) # "development"
        THEN [resp |-> req, otps |-> stored,
              issue |-> TRUE, mail |-> TRUE, code |-> code]
        ELSE [resp |-> [req EXCEPT !.status = 302, !.location = "code"],
              otps |-> stored,
              issue |-> TRUE, mail |-> FALSE, code |-> code]

loginHandler(otps, t, e, email, bytes) ==
    LET req == [NoResp EXCEPT !.op = "login", !.email = email]
        c == canRequestOTP(otps, email, t)
        code == IF NodeEnv(e) = "development" THEN DevCode ELSE generateCode(bytes)
        stay == [otps |-> otps, issue |-> FALSE, mail |-> FALSE, code |-> Str0]
    IN  IF email = Str0
        THEN [resp |-> [req EXCEPT !.status = 400]] @@ stay
        ELSE IF ~validateEmail(email)
        THEN [resp |-> [req EXCEPT !.status = 400]] @@ stay
        ELSE IF ~c.ok
        THEN [resp |-> [req EXCEPT !.status = 429]] @@ stay
        ELSE IF NodeEnv(e) # "development"
        THEN [resp |-> req, otps |-> storeOTP(c.store, email, code, t),
              issue |-> TRUE, mail |-> TRUE, code |-> code]
        ELSE [resp |-> [req EXCEPT !.status = 302, !.location = "code"],
              otps |-> storeOTP(c.store, email, code, t),
              issue |-> TRUE, mail |-> FALSE, code |-> code]

----------------------------------------------------------------------------
(* History kept for the properties *)

Min(a, b) == IF a < b THEN a ELSE b

\* the logouts noted as one of the values from are noted as to
NoteCycle(h, from, to) ==
    [k \in DOMAIN h |-> IF h[k] \in from THEN to ELSE h[k]]

\* the setInterval callback of startAutoSave ran: on a save in progress it
\* returned and is no cycle of its own; on an empty ledger it returned, and
\* that was the whole cycle; otherwise its saveToFile has only begun
NoteAutoSave(h, saving, m) ==
    IF ~saving /\ DOMAIN m = {} THEN NoteCycle(h, {"out"}, "cycled") ELSE h

\* startServer loaded the ledger m from the snapshot
NoteRestored(h, m) ==
    [k \in DOMAIN h |->
        IF ~MapHas(m, k) THEN h[k]
        ELSE IF h[k] \in {"cycled", "revived"} THEN "revived"
        ELSE "restored"]

\* storeOTP(email, code) ran on the ledger otps (expired entry already purged):
\* the code now issued, and the code of the live entry it replaced when that
\* was another one
NoteIssued(h, otps, email, code) ==
    LET id == normalizeEmail(email)
        c == normalizeCode(code)
        old == IF MapHas(otps, id) /\ MapHas(h, id) /\ ~h[id].used /\ h[id].code # c
               THEN h[id].code
               ELSE Str0
    IN  MapSet(h, id, [code |-> c, used |-> FALSE, replaced |-> old])

NoteVerified(h, email, ok) ==
    LET id == normalizeEmail(email)
    IN  IF ok /\ MapHas(h, id) THEN [h EXCEPT ![id].used = TRUE] ELSE h

\* a wrong code was tried against the live entry of the identity
NoteGuess(w, h, otps, t, email, code) ==
    LET id == normalizeEmail(email)
    IN  IF /\ MapHas(otps, id)
           /\ ~(t > otps[id].expiresAt)
           /\ MapHas(h, id)
           /\ normalizeCode(code) # h[id].code
        THEN MapSet(w, id, Min(w[id] + 1, MAX_ATTEMPTS))
        ELSE w

----------------------------------------------------------------------------
(* The state machine *)

DevEnv == [nodeEnv |-> "development", domain |-> Str0, allowedSubdomains |-> Str0]
ProdEnv == [nodeEnv |-> "production", domain |-> DomainXY, allowedSubdomains |-> Str0]
TrustEnv == [nodeEnv |-> "development", domain |-> DomainXY, allowedSubdomains |-> AllowA]

Envs ==
    { DevEnv, ProdEnv, TrustEnv,
      [nodeEnv |-> "production", domain |-> DomainXY, allowedSubdomains |-> AllowAtA],
      [nodeEnv |-> "", domain |-> DomainXY, allowedSubdomains |-> Star],
      [nodeEnv |-> "development", domain |-> Str0, allowedSubdomains |-> AllowA] }

Hosts == {HostApp, HostOther, HostBase, HostForeign, Str0}

Cookies == {NoCookie, GarbageToken} \cup IssuedTokens

AuthHeaders ==
    {Str0, <<"Basic", " ", "0">>} \cup {Bearer \o <<" ">> \o k : k \in IssuedTokens}

IssuedCodes ==
    {issued[id].code : id \in DOMAIN issued}
       \cup {issued[id].replaced : id \in {x \in DOMAIN issued :
                                               issued[x].replaced # Str0}}

CodeInputs == {DevCode, toLowerCase(DevCode), WrongCode, Str0} \cup IssuedCodes

Init ==
    /\ now = 0
    /\ env \in Envs
    /\ proc = "running"
    /\ otpStore = EmptyMap
    /\ tokenStore = EmptyMap
    /\ isSaving = FALSE
    /\ savePc = "idle"
    /\ saveData = Absent
    /\ file = Absent
    /\ tmpFile = Absent
    /\ nextToken = 1
    /\ mailQueue = {}
    /\ issued = EmptyMap
    /\ wrongGuesses = EmptyMap
    /\ loggedOut = EmptyMap
    /\ resp = NoResp
    /\ shutPc = "none"
    /\ shutData = Absent
    /\ writable = TRUE

Tick ==
    /\ resp = NoResp
    /\ now < MaxTime
    /\ now' = now + 1
    /\ resp' = NoResp
    /\ UNCHANGED life
    /\ UNCHANGED <<env, proc, otpStore, tokenStore, isSaving, savePc, saveData,
                   file, tmpFile, nextToken, mailQueue, issued, wrongGuesses,
                   loggedOut>>

Verify(host, cookie) ==
    /\ resp = NoResp
    /\ proc = "running"
    /\ \E r \in {verifyHandler(tokenStore, now, env, host, cookie)} :
           /\ resp' = r.resp
           /\ tokenStore' = r.tokens
    /\ UNCHANGED life
    /\ UNCHANGED <<now, env, proc, otpStore, isSaving, savePc, saveData, file,
                   tmpFile, nextToken, mailQueue, issued, wrongGuesses, loggedOut>>

User(auth, cookie) ==
    /\ resp = NoResp
    /\ proc = "running"
    /\ \E r \in {userHandler(tokenStore, now, auth, cookie)} :
           /\ resp' = r.resp
           /\ tokenStore' = r.tokens
    /\ UNCHANGED life
    /\ UNCHANGED <<now, env, proc, otpStore, isSaving, savePc, saveData, file,
                   tmpFile, nextToken, mailQueue, issued, wrongGuesses, loggedOut>>

AccessToken(cookie) ==
    /\ resp = NoResp
    /\ proc = "running"
    /\ \E r \in {accessTokenHandler(tokenStore, now, cookie, generateToken(nextToken))} :
           /\ r.minted => nextToken <= MaxTokens
           /\ resp' = r.resp
           /\ tokenStore' = r.tokens
           /\ nextToken' = IF r.minted THEN nextToken + 1 ELSE nextToken
    /\ UNCHANGED life
    /\ UNCHANGED <<now, env, proc, otpStore, isSaving, savePc, saveData, file,
                   tmpFile, mailQueue, issued, wrongGuesses, loggedOut>>

LoginPost(email, bytes) ==
    /\ resp = NoResp
    /\ proc = "running"
    /\ \E r \in {loginHandler(otpStore, now, env, email, bytes)} :
           /\ r.mail => Cardinality(mailQueue) < MaxMail
           /\ resp' = r.resp
           /\ otpStore' = r.otps
           /\ mailQueue' = IF r.mail
                           THEN mailQueue \cup {[email |-> email, code |-> r.code]}
                           ELSE mailQueue
           /\ issued' = IF r.issue
                        THEN NoteIssued(issued,
                                        canRequestOTP(otpStore, email, now).store,
                                        email, r.code)
                        ELSE issued
           /\ wrongGuesses' = IF r.issue
                              THEN MapSet(wrongGuesses, normalizeEmail(email), 0)
                              ELSE wrongGuesses
    /\ UNCHANGED life
    /\ UNCHANGED <<now, env, proc, tokenStore, isSaving, savePc, saveData, file,
                   tmpFile, nextToken, loggedOut>>

\* a catch block of POST /login that takes the stored code back
loginCatchRollsBack(otps, email) ==
    [resp |-> [NoResp EXCEPT !.op = "login", !.email = email, !.status = 500],
     otps |-> MapDelete(otps, normalizeEmail(email))]

\* the catch block of POST /login: the login page with status 500
loginCatch(otps, email) ==
    [resp |-> [NoResp EXCEPT !.op = "login", !.email = email, !.status = 500],
     otps |-> otps]

\* sendOTPEmail settles and POST /login runs on to its response
MailDone(m, sent) ==
    /\ resp = NoResp
    /\ proc = "running"
    /\ m \in mailQueue
    /\ mailQueue' = mailQueue \ {m}
    /\ IF sent
       THEN /\ resp' = [NoResp EXCEPT !.op = "login", !.email = m.email,
                                      !.status = 302, !.location = "code"]
            /\ UNCHANGED otpStore
       ELSE \E r \in {loginCatch(otpStore, m.email)} :
               /\ resp' = r.resp
               /\ otpStore' = r.otps
    /\ UNCHANGED life
    /\ UNCHANGED <<now, env, proc, tokenStore, isSaving, savePc,
                   saveData, file, tmpFile, nextToken, issued, wrongGuesses,
                   loggedOut>>

\* a POST /code that redirects to whatever the form carried
codeTargetUnchecked(e, redirect) == redirect

\* where POST /code redirects after a match: the sanitized redirect, made
\* absolute with https (no x-forwarded-proto header) when it is a path
codeTarget(e, redirect) ==
    LET validatedRedirect == validateRedirectUrl(redirect, Domain(e))
    IN  IF startsWith(validatedRedirect, <<"/">>)
        THEN Https \o Domain(e) \o validatedRedirect
        ELSE validatedRedirect

\* POST /code with the form fields email, code and redirect
CodePostWith(email, code, redirect) ==
    /\ resp = NoResp
    /\ proc = "running"
    /\ \E r \in {codeHandler(otpStore, tokenStore, now, email, code,
                            generateToken(nextToken))} :
           /\ r.minted => nextToken <= MaxTokens
           /\ resp' = IF r.minted
                      THEN [r.resp EXCEPT !.redirect = redirect,
                                          !.target = codeTarget(env, redirect)]
                      ELSE r.resp
           /\ otpStore' = r.otps
           /\ tokenStore' = r.tokens
           /\ nextToken' = IF r.minted THEN nextToken + 1 ELSE nextToken
           /\ issued' = IF r.called
                        THEN NoteVerified(issued, email, r.minted)
                        ELSE issued
           /\ wrongGuesses' = IF r.called
                              THEN NoteGuess(wrongGuesses, issued, otpStore, now,
                                             email, code)
                              ELSE wrongGuesses
    /\ UNCHANGED life
    /\ UNCHANGED <<now, env, proc, isSaving, savePc, saveData, file, tmpFile,
                   mailQueue, loggedOut>>

\* POST /code without a redirect field
CodePost(email, code) == CodePostWith(email, code, Str0)

Logout(cookie) ==
    /\ resp = NoResp
    /\ proc = "running"
    /\ \E r \in {logoutHandler(tokenStore, cookie)} :
           /\ resp' = r.resp
           /\ tokenStore' = r.tokens
    /\ loggedOut' = IF MapHas(tokenStore, cookie)
                    THEN MapSet(loggedOut, cookie, "out")
                    ELSE loggedOut
    /\ UNCHANGED life
    /\ UNCHANGED <<now, env, proc, otpStore, isSaving, savePc, saveData, file,
                   tmpFile, nextToken, mailQueue, issued, wrongGuesses>>

\* the setInterval callback of OTPStore.startCleanup
OtpCleanupTick ==
    /\ resp = NoResp
    /\ proc = "running"
    /\ shutPc = "none"
    /\ otpStore' = otpCleanup(otpStore, now)
    /\ resp' = NoResp
    /\ UNCHANGED life
    /\ UNCHANGED <<now, env, proc, tokenStore, isSaving, savePc, saveData, file,
                   tmpFile, nextToken, mailQueue, issued, wrongGuesses, loggedOut>>

\* the setInterval callback of TokenStore.startCleanup
TokenCleanupTick ==
    /\ resp = NoResp
    /\ proc = "running"
    /\ shutPc = "none"
    /\ tokenStore' = tokenCleanup(tokenStore, now)
    /\ resp' = NoResp
    /\ UNCHANGED life
    /\ UNCHANGED <<now, env, proc, otpStore, isSaving, savePc, saveData, file,
                   tmpFile, nextToken, mailQueue, issued, wrongGuesses, loggedOut>>

\* the setInterval callback of TokenStore.startAutoSave, up to the first
\* suspension of the saveToFile it calls (await fs.mkdir)
autoSaveStarts(saving, m) == ~saving /\ DOMAIN m # {}

\* a saveToFile that lets every call through
saveToFileNeverSkips(saving) == FALSE

\* saveToFile returns at once, without writing, when a save is in progress
saveToFileSkips(saving) == saving

\* the callback, with noted as the history of logouts it leaves
autoSaveCallback(noted) ==
    /\ resp = NoResp
    /\ proc = "running"
    /\ shutPc = "none"
    /\ IF autoSaveStarts(isSaving, tokenStore) /\ ~saveToFileSkips(isSaving)
       THEN isSaving' = TRUE /\ savePc' = "mkdir"
       ELSE UNCHANGED <<isSaving, savePc>>
    /\ loggedOut' = noted
    /\ resp' = NoResp
    /\ UNCHANGED life
    /\ UNCHANGED <<now, env, proc, otpStore, tokenStore, saveData, file, tmpFile,
                   nextToken, mailQueue, issued, wrongGuesses>>

\* the timer of startAutoSave fires
AutoSaveTick == autoSaveCallback(loggedOut)

\* the timer of startAutoSave fires, and the history of logouts takes note
AutoSaveNoted ==
    autoSaveCallback(NoteAutoSave(loggedOut, isSaving, tokenStore))

\* fs.writeFile straight to PERSISTENCE_FILE
writeInPlace == "file"

\* the path fs.writeFile writes the document to: tempFile
writeTarget == "tmp"

\* fs.mkdir resolved: cleanup(), serialize, and fs.writeFile(tempFile) begins:
\* from here on the file being written holds a part of the document
SaveSerialize ==
    /\ resp = NoResp
    /\ proc = "running"
    /\ savePc = "mkdir"
    /\ tokenStore' = tokenCleanup(tokenStore, now)
    /\ saveData' = Serialize(tokenStore')
    /\ IF writeTarget = "tmp"
       THEN tmpFile' = Partial /\ UNCHANGED file
       ELSE file' = Partial /\ UNCHANGED tmpFile
    /\ savePc' = "write"
    /\ resp' = NoResp
    /\ UNCHANGED life
    /\ UNCHANGED <<now, env, proc, otpStore, isSaving, nextToken, mailQueue,
                   issued, wrongGuesses, loggedOut>>

\* fs.writeFile resolved: the whole document is in the file, fs.rename begins
SaveWritten ==
    /\ resp = NoResp
    /\ proc = "running"
    /\ savePc = "write"
    /\ IF writeTarget = "tmp"
       THEN tmpFile' = saveData /\ UNCHANGED file
       ELSE file' = saveData /\ UNCHANGED tmpFile
    /\ savePc' = "rename"
    /\ saveData' = Absent
    /\ resp' = NoResp
    /\ UNCHANGED life
    /\ UNCHANGED <<now, env, proc, otpStore, tokenStore, isSaving, nextToken,
                   mailQueue, issued, wrongGuesses, loggedOut>>

\* fs.rename resolved, and saveToFile runs to its end (finally: isSaving = false)
SaveRenamed ==
    /\ resp = NoResp
    /\ proc = "running"
    /\ savePc = "rename"
    /\ tmpFile.kind # "absent"
    /\ file' = tmpFile
    /\ tmpFile' = Absent
    /\ isSaving' = FALSE
    /\ savePc' = "idle"
    /\ resp' = NoResp
    /\ UNCHANGED life
    /\ UNCHANGED <<now, env, proc, otpStore, tokenStore, saveData, nextToken,
                   mailQueue, issued, wrongGuesses, loggedOut>>

\* a saveToFile without the finally: a rejection leaves isSaving set
SaveFailedKeepsFlag ==
    /\ resp = NoResp
    /\ proc = "running"
    /\ savePc \in {"mkdir", "write", "rename"}
    /\ savePc' = "idle"
    /\ saveData' = Absent
    /\ resp' = NoResp
    /\ UNCHANGED life
    /\ UNCHANGED <<now, env, proc, otpStore, tokenStore, isSaving, file, tmpFile,
                   nextToken, mailQueue, issued, wrongGuesses, loggedOut>>

\* fs.mkdir, fs.writeFile or fs.rename rejected: catch, finally, rethrow
SaveFailed ==
    /\ resp = NoResp
    /\ proc = "running"
    /\ savePc \in {"mkdir", "write", "rename"}
    /\ isSaving' = FALSE
    /\ savePc' = "idle"
    /\ saveData' = Absent
    /\ resp' = NoResp
    /\ UNCHANGED life
    /\ UNCHANGED <<now, env, proc, otpStore, tokenStore, file, tmpFile, nextToken,
                   mailQueue, issued, wrongGuesses, loggedOut>>

\* values of the query parameter redirect
RedirectInputs ==
    { << >>,
      <<"/">>,
      <<"/", "d">>,
      <<"/", "d", "/", "e">>,
      <<"/", "/", "e", ".", "z", "/">>,
      <<"/", "\\", "e", ".", "z">>,
      <<"d">>,
      <<" ", "/", "d">>,
      <<"h", "t", "t", "p", "s", ":", "/", "/", "x", ".", "y", "/", "d">>,
      <<"h", "t", "t", "p", ":", "/", "/", "x", ".", "y", "/", "d">>,
      <<"h", "t", "t", "p", "s", ":", "/", "/", "x", ".", "y">>,
      <<"h", "t", "t", "p", "s", ":", "/", "/", "a", ".", "x", ".", "y", "/", "d">>,
      <<"h", "t", "t", "p", "s", ":", "/", "/", "X", ".", "Y", "/", "d">>,
      <<"h", "t", "t", "p", "s", ":", "/", "/", "x", ".", "y", ":", "8", "/", "d">>,
      <<"h", "t", "t", "p", "s", ":", "/", "/", "x", ".", "y", ":", "p", "/", "d">>,
      <<"h", "t", "t", "p", "s", ":", "/", "/", "u", "@", "x", ".", "y", "/", "d">>,
      <<"h", "t", "t", "p", "s", ":", "/", "/", "x", ".", "y", "?", "d">>,
      <<"h", "t", "t", "p", "s", ":", "/", "/", "x", ".", "y", "\\", "@", "e", ".", "z">>,
      <<"h", "t", "t", "p", "s", ":", "/", "/", "e", ".", "z", "/">>,
      <<"h", "t", "t", "p", "s", ":", "/", "/", "e", "x", ".", "y", "/">>,
      <<"h", "t", "t", "p", "s", ":", "/", "/", "x", ".", "y", ".", "e", ".", "z", "/">>,
      <<"h", "t", "t", "p", "s", ":", "/", "/", "x", ".", "y", "@", "e", ".", "z", "/">>,
      <<"h", "t", "t", "p", "s", ":", "/", "/", "e", ".", "z", "/", "x", ".", "y">>,
      <<"h", "t", "t", "p", "s", ":", "/", "/", "e", ".", "z", "#", ".", "x", ".", "y">>,
      <<"h", "t", "t", "p", "s", ":", "/", "/">>,
      <<"h", "t", "t", "p", "s", ":", "/", "/", " ", "x", ".", "y", "/">>,
      <<"h", "t", "t", "p", "s", ":", "/", "/", "/", "x", ".", "y", "/", "d">>,
      <<"H", "T", "T", "P", "S", ":", "/", "/", "x", ".", "y", "/", "d">>,
      <<"H", "t", "t", "p", ":", "/", "/", "a", ".", "x", ".", "y", "/">>,
      <<"f", "t", "p", ":", "/", "/", "x", ".", "y", "/">>,
      <<"j", "a", "v", "a", "s", "c", "r", "i", "p", "t", ":", "a">>,
      <<"h", "t", "t", "p", "s", ":", "/", "/", "l", "o", "c", "a", "l", "h", "o", "s", "t", "/", "d">>,
      <<"h", "t", "t", "p", ":", "/", "/", "a", ".", "l", "o", "c", "a", "l", "h", "o", "s", "t">> }

\* GET /login
LoginPage(redirect) ==
    /\ resp = NoResp
    /\ proc = "running"
    /\ resp' = loginPage(env, redirect)
    /\ UNCHANGED life
    /\ UNCHANGED <<now, env, proc, otpStore, tokenStore, isSaving, savePc, saveData,
                   file, tmpFile, nextToken, mailQueue, issued, wrongGuesses,
                   loggedOut>>

\* while the process is down another release of the program leaves its
\* snapshot in the file: the same entries under the version number v
\* (0 stands for a file without a version)
OtherRelease(v) ==
    /\ resp = NoResp
    /\ proc = "down"
    /\ file.kind = "json"
    /\ file.version # v
    /\ file' = [file EXCEPT !.version = v]
    /\ UNCHANGED life
    /\ UNCHANGED <<now, env, proc, otpStore, tokenStore, isSaving, savePc, saveData,
                   tmpFile, nextToken, mailQueue, issued, wrongGuesses, loggedOut,
                   resp>>

\* res.send / res.redirect / res.end: the response leaves and the handler returns
Respond ==
    /\ resp # NoResp
    /\ resp' = NoResp
    /\ UNCHANGED life
    /\ UNCHANGED <<now, env, proc, otpStore, tokenStore, isSaving, savePc, saveData,
                   file, tmpFile, nextToken, mailQueue, issued, wrongGuesses,
                   loggedOut>>

\* the process dies (kill, power loss, process.exit): memory is gone, the disk stays
Crash ==
    /\ resp = NoResp
    /\ proc = "running"
    /\ proc' = "down"
    /\ otpStore' = EmptyMap
    /\ tokenStore' = EmptyMap
    /\ isSaving' = FALSE
    /\ savePc' = "idle"
    /\ saveData' = Absent
    /\ mailQueue' = {}
    /\ resp' = NoResp
    /\ shutPc' = "none"
    /\ shutData' = Absent
    /\ UNCHANGED <<now, env, file, tmpFile, nextToken, issued, wrongGuesses,
                   loggedOut, writable>>

\* a startServer that goes on whatever the check says
startNeverRefuses(isWritable, e) == FALSE

\* startServer refuses to go on: production and the directory is not writable

startRefuses(isWritable, e) == ~isWritable /\ NodeEnv(e) = "production"

\* startServer: verifyPersistenceDirectory, then the ledger is loaded before
\* the server listens
Start ==
    /\ resp = NoResp
    /\ proc = "down"
    /\ IF startRefuses(writable, env)
       THEN /\ proc' = "exit1"
            /\ UNCHANGED <<tokenStore, loggedOut>>
       ELSE /\ proc' = "running"
            /\ tokenStore' = loadFromFile(tokenStore, file, now)
            /\ loggedOut' = NoteRestored(loggedOut, tokenStore')
    /\ resp' = NoResp
    /\ UNCHANGED life
    /\ UNCHANGED <<now, env, otpStore, isSaving, savePc, saveData, file, tmpFile,
                   nextToken, mailQueue, issued, wrongGuesses>>

\* the persistence directory stops being writable (read-only mount, full disk)
DirectoryLost ==
    /\ resp = NoResp
    /\ writable
    /\ writable' = FALSE
    /\ UNCHANGED <<now, env, proc, otpStore, tokenStore, isSaving, savePc,
                   saveData, file, tmpFile, nextToken, mailQueue, issued,
                   wrongGuesses, loggedOut, resp, shutPc, shutData>>

\* SIGTERM or SIGINT: shutdown() stops the intervals and calls saveToFile,
\* which returns at once when a save is in progress; shutdown() then goes on
\* to server.close and arms the timer of the forced exit
Signal ==
    /\ resp = NoResp
    /\ proc = "running"
    /\ shutPc = "none"
    /\ IF saveToFileSkips(isSaving)
       THEN shutPc' = "closing" /\ UNCHANGED isSaving
       ELSE shutPc' = "mkdir" /\ isSaving' = TRUE
    /\ UNCHANGED <<now, env, proc, otpStore, tokenStore, savePc, saveData, file,
                   tmpFile, nextToken, mailQueue, issued, wrongGuesses, loggedOut,
                   resp, shutData, writable>>

\* the saveToFile of shutdown(): fs.mkdir resolved, cleanup, serialize, and
\* fs.writeFile(tempFile) begins
ShutSerialize ==
    /\ resp = NoResp
    /\ proc = "running"
    /\ shutPc = "mkdir"
    /\ tokenStore' = tokenCleanup(tokenStore, now)
    /\ shutData' = Serialize(tokenStore')
    /\ IF writeTarget = "tmp"
       THEN tmpFile' = Partial /\ UNCHANGED file
       ELSE file' = Partial /\ UNCHANGED tmpFile
    /\ shutPc' = "write"
    /\ UNCHANGED <<now, env, proc, otpStore, isSaving, savePc, saveData, nextToken,
                   mailQueue, issued, wrongGuesses, loggedOut, resp, writable>>

\* the saveToFile of shutdown(): fs.writeFile resolved, fs.rename begins
ShutWritten ==
    /\ resp = NoResp
    /\ proc = "running"
    /\ shutPc = "write"
    /\ IF writeTarget = "tmp"
       THEN tmpFile' = shutData /\ UNCHANGED file
       ELSE file' = shutData /\ UNCHANGED tmpFile
    /\ shutPc' = "rename"
    /\ shutData' = Absent
    /\ UNCHANGED <<now, env, proc, otpStore, tokenStore, isSaving, savePc, saveData,
                   nextToken, mailQueue, issued, wrongGuesses, loggedOut, resp,
                   writable>>

\* the saveToFile of shutdown(): fs.rename resolved, finally; shutdown() goes
\* on to server.close and arms the timer of the forced exit
ShutRenamed ==
    /\ resp = NoResp
    /\ proc = "running"
    /\ shutPc = "rename"
    /\ tmpFile.kind # "absent"
    /\ file' = tmpFile
    /\ tmpFile' = Absent
    /\ isSaving' = FALSE
    /\ shutPc' = "closing"
    /\ UNCHANGED <<now, env, proc, otpStore, tokenStore, savePc, saveData,
                   nextToken, mailQueue, issued, wrongGuesses, loggedOut, resp,
                   shutData, writable>>

\* the saveToFile of shutdown() rejected: finally, and the catch of shutdown()
\* goes on to server.close
ShutFailed ==
    /\ resp = NoResp
    /\ proc = "running"
    /\ shutPc \in {"mkdir", "write", "rename"}
    /\ isSaving' = FALSE
    /\ shutPc' = "closing"
    /\ shutData' = Absent
    /\ UNCHANGED <<now, env, proc, otpStore, tokenStore, savePc, saveData, file,
                   tmpFile, nextToken, mailQueue, issued, wrongGuesses, loggedOut,
                   resp, writable>>

\* process.exit(code): memory is gone, the disk stays
exitWith(code) ==
    /\ proc' = code
    /\ otpStore' = EmptyMap
    /\ tokenStore' = EmptyMap
    /\ isSaving' = FALSE
    /\ savePc' = "idle"
    /\ saveData' = Absent
    /\ mailQueue' = {}
    /\ shutData' = Absent
    /\ UNCHANGED <<now, env, file, tmpFile, nextToken, issued, wrongGuesses,
                   loggedOut, resp, writable, shutPc>>

\* the callback of server.close: every connection has ended
ServerClosed ==
    /\ resp = NoResp
    /\ proc = "running"
    /\ shutPc = "closing"
    /\ exitWith("exit0")

\* the callback of the setTimeout armed after server.close
ForcedExit ==
    /\ resp = NoResp
    /\ proc = "running"
    /\ shutPc = "closing"
    /\ exitWith("exit1")

----------------------------------------------------------------------------
(* Specifications.  Each one is the program under one choice of environment: *)
(* which requests arrive, which timers fire and whether the process dies.    *)

\* the request handlers in front of the token ledger, two identities
Next ==
    \/ Tick
    \/ \E h \in {HostApp, HostOther}, c \in Cookies : Verify(h, c)
    \/ \E a \in AuthHeaders : User(a, NoCookie)
    \/ \E c \in Cookies : User(Str0, c)
    \/ \E c \in Cookies : AccessToken(c)
    \/ \E e \in {EmailU, EmailV} : LoginPost(e, <<0, 0, 0, 0, 0, 0>>)
    \/ \E e \in {EmailU, EmailUUpper, EmailV} : CodePost(e, DevCode)
    \/ \E c \in Cookies : Logout(c)
    \/ TokenCleanupTick
    \/ Respond

\* started in development with the allow-list "a" of the domain x.y
InitTrust == Init /\ env = TrustEnv

Spec == InitTrust /\ [][Next]_vars

\* the OTP ledger and the two handlers that use it, one identity
NextOtp ==
    \/ Tick
    \/ \E e \in {EmailU, EmailUUpper, EmailUSpaced, EmailNoDot, Str0},
          b \in RandomBytes :
             LoginPost(e, b)
    \/ \E m \in mailQueue, sent \in BOOLEAN : MailDone(m, sent)
    \/ \E e \in {EmailU, EmailUSpaced, Str0}, c \in CodeInputs : CodePost(e, c)
    \/ OtpCleanupTick
    \/ Respond

\* started without a domain, in development or in production
InitOtp == Init /\ env \in {DevEnv, ProdEnv}

SpecOtp == InitOtp /\ [][NextOtp]_vars

\* GET /verify under every configuration of the host trust check
NextHost ==
    \/ Tick
    \/ \E h \in Hosts, c \in Cookies : Verify(h, c)
    \/ LoginPost(EmailU, <<0, 0, 0, 0, 0, 0>>)
    \/ \E m \in mailQueue : MailDone(m, TRUE)
    \/ \E c \in IssuedCodes : CodePost(EmailU, c)
    \/ Respond

SpecHost == Init /\ [][NextHost]_vars

\* the token ledger, its snapshot file and the death of the process
NextDisk ==
    \/ \E c \in Cookies : Verify(HostApp, c)
    \/ LoginPost(EmailU, <<0, 0, 0, 0, 0, 0>>)
    \/ CodePost(EmailU, DevCode)
    \/ \E c \in Cookies : Logout(c)
    \/ AutoSaveTick
    \/ SaveSerialize
    \/ SaveWritten
    \/ SaveRenamed
    \/ SaveFailed
    \/ Crash
    \/ Start
    \/ Respond

\* started in development without a domain
InitDisk == Init /\ env = DevEnv

SpecDisk == InitDisk /\ [][NextDisk]_vars

\* the life of the process: start with the readiness check, saves by the
\* timer and by shutdown(), the signal, the exits and the death
NextLife ==
    \/ LoginPost(EmailU, <<0, 0, 0, 0, 0, 0>>)
    \/ \E m \in mailQueue : MailDone(m, TRUE)
    \/ \E c \in IssuedCodes : CodePost(EmailU, c)
    \/ \E c \in IssuedTokens : Logout(c)
    \/ AutoSaveTick
    \/ SaveSerialize
    \/ SaveWritten
    \/ SaveRenamed
    \/ SaveFailed
    \/ Signal
    \/ ShutSerialize
    \/ ShutWritten
    \/ ShutRenamed
    \/ ShutFailed
    \/ ServerClosed
    \/ ForcedExit
    \/ DirectoryLost
    \/ Crash
    \/ Start
    \/ Respond

\* started without a domain, in development or in production
InitLife == Init /\ env \in {DevEnv, ProdEnv}

SpecLife == InitLife /\ [][NextLife]_vars

\* tokens of both types that age while they are saved, lost with the
\* process and loaded again
NextRestore ==
    \/ Tick
    \/ LoginPost(EmailU, <<0, 0, 0, 0, 0, 0>>)
    \/ CodePost(EmailU, DevCode)
    \/ \E c \in IssuedTokens : AccessToken(c)
    \/ \E c \in IssuedTokens : User(Bearer \o <<" ">> \o c, NoCookie)
    \/ \E c \in IssuedTokens : Verify(HostApp, c)
    \/ TokenCleanupTick
    \/ AutoSaveTick
    \/ SaveSerialize
    \/ SaveWritten
    \/ SaveRenamed
    \/ SaveFailed
    \/ Crash
    \/ Start
    \/ Respond

SpecRestore == InitDisk /\ [][NextRestore]_vars

\* sessions come and go while the auto-save timer keeps firing and storage
\* never fails: the callbacks of the timer and the continuations of the file
\* operations run whenever they are due, whatever requests arrive
NextSync ==
    \/ LoginPost(EmailU, <<0, 0, 0, 0, 0, 0>>)
    \/ CodePost(EmailU, DevCode)
    \/ \E c \in IssuedTokens : Logout(c)
    \/ AutoSaveTick
    \/ SaveSerialize
    \/ SaveWritten
    \/ SaveRenamed
    \/ Respond

SpecSync ==
    /\ InitDisk
    /\ [][NextSync]_vars
    /\ WF_vars(Respond)
    /\ SF_vars(AutoSaveTick)
    /\ SF_vars(SaveSerialize)
    /\ SF_vars(SaveWritten)
    /\ SF_vars(SaveRenamed)

\* the process from a termination signal to its exit: the callbacks of
\* responses and of the armed timer run; no file operation and no
\* server.close is bound to complete
NextShutdown ==
    \/ LoginPost(EmailU, <<0, 0, 0, 0, 0, 0>>)
    \/ CodePost(EmailU, DevCode)
    \/ AutoSaveTick
    \/ SaveSerialize
    \/ SaveWritten
    \/ SaveRenamed
    \/ Signal
    \/ ShutSerialize
    \/ ShutWritten
    \/ ShutRenamed
    \/ ShutFailed
    \/ ServerClosed
    \/ ForcedExit
    \/ Respond

SpecShutdown ==
    /\ InitDisk
    /\ [][NextShutdown]_vars
    /\ WF_vars(Respond)
    /\ SF_vars(ForcedExit)


\* the login page in front of every configuration of the domain
NextRedirect ==
    \/ \E r \in RedirectInputs : LoginPage(r)
    \/ Respond

SpecRedirect == Init /\ [][NextRedirect]_vars

\* authorization headers of GET /user: none, a bearer token, and headers
\* that are not "Bearer <token>"
UserAuthHeaders ==
    {Str0, <<"Basic", " ", "0">>, <<"Bearer">>, <<"bearer", " ", "1">>,
     <<"Bearer", " ", " ", "1">>, Bearer \o <<" ">> \o GarbageToken}
       \cup {Bearer \o <<" ">> \o k : k \in IssuedTokens}

\* GET /user with a header and a cookie at once, one identity
NextUser ==
    \/ Tick
    \/ LoginPost(EmailU, <<0, 0, 0, 0, 0, 0>>)
    \/ CodePost(EmailU, DevCode)
    \/ \E c \in IssuedTokens : AccessToken(c)
    \/ \E a \in UserAuthHeaders, c \in Cookies : User(a, c)
    \/ \E c \in IssuedTokens : Logout(c)
    \/ Respond

SpecUser == InitDisk /\ [][NextUser]_vars

\* the OTP flow under each value of NODE_ENV: development, production, unset
UnsetEnv == [nodeEnv |-> "", domain |-> DomainXY, allowedSubdomains |-> Star]

NextPosture ==
    \/ Tick
    \/ \E b \in RandomBytes : LoginPost(EmailU, b)
    \/ \E m \in mailQueue, sent \in BOOLEAN : MailDone(m, sent)
    \/ \E c \in {DevCode} \cup IssuedCodes : CodePost(EmailU, c)
    \/ Respond

InitPosture == Init /\ env \in {DevEnv, ProdEnv, UnsetEnv}

SpecPosture == InitPosture /\ [][NextPosture]_vars

\* restart in front of snapshots of other format versions
SnapshotVersions == {0, 1, 2}

NextVersions ==
    \/ LoginPost(EmailU, <<0, 0, 0, 0, 0, 0>>)
    \/ CodePost(EmailU, DevCode)
    \/ \E c \in IssuedTokens : Verify(HostApp, c)
    \/ AutoSaveTick
    \/ SaveSerialize
    \/ SaveWritten
    \/ SaveRenamed
    \/ Crash
    \/ \E v \in SnapshotVersions : OtherRelease(v)
    \/ Start
    \/ Respond

SpecVersions == InitDisk /\ [][NextVersions]_vars

\* the host check in front of every pairing of a base domain (none, one
\* dot, two dots) with an allow-list (none, wildcard, labels, sentinels)
TableDomains == { Str0, <<"x", ".", "y">>, <<"x", ".", "y", ".", "z">> }

TableLists ==
    { Str0,
      <<"*">>,
      <<"a">>,
      <<"@", ",", "a">>,
      <<" ", "a", " ", ",", "b">>,
      <<",", "b">> }

TableHosts ==
    { Str0,
      <<"x", ".", "y">>,
      <<"a", ".", "x", ".", "y">>,
      <<"b", ".", "x", ".", "y">>,
      <<"A", ".", "x", ".", "y">>,
      <<"a", ".", "b", ".", "x", ".", "y">>,
      <<"e", "x", ".", "y">>,
      <<"e", ".", "z">>,
      <<"a", ".", ".", "x", ".", "y">>,
      <<".", "x", ".", "y">>,
      <<"x", ".", "y", ".", "z">>,
      <<"a", ".", "x", ".", "y", ".", "z">>,
      <<"x", ".", "y", "a", "z">>,
      <<"a", ".", "x", ".", "y", "a", "z">>,
      <<"x", ".", "y", ".", "z", ".", "e">> }

NextTable ==
    \/ \E h \in TableHosts : Verify(h, NoCookie)
    \/ Respond

InitTable ==
    /\ now = 0
    /\ env \in {[nodeEnv |-> "development", domain |-> d, allowedSubdomains |-> l] :
                   d \in TableDomains, l \in TableLists}
    /\ proc = "running"
    /\ otpStore = EmptyMap
    /\ tokenStore = EmptyMap
    /\ isSaving = FALSE
    /\ savePc = "idle"
    /\ saveData = Absent
    /\ file = Absent
    /\ tmpFile = Absent
    /\ nextToken = 1
    /\ mailQueue = {}
    /\ issued = EmptyMap
    /\ wrongGuesses = EmptyMap
    /\ loggedOut = EmptyMap
    /\ resp = NoResp
    /\ shutPc = "none"
    /\ shutData = Absent
    /\ writable = TRUE

SpecTable == InitTable /\ [][NextTable]_vars

\* one visitor from the login form to the protected page: the redirect
\* fields a form may carry, in development and in production
JourneyRedirects ==
    { Str0, <<"/", "d">>, <<"/", "/", "e", ".", "z">>,
      <<"h", "t", "t", "p", "s", ":", "/", "/", "a", ".", "x", ".", "y", "/", "d">>,
      <<"h", "t", "t", "p", "s", ":", "/", "/", "e", ".", "z", "/">> }

NextJourney ==
    \/ Tick
    \/ \E b \in RandomBytes : LoginPost(EmailU, b)
    \/ \E m \in mailQueue : MailDone(m, TRUE)
    \/ \E c \in {WrongCode} \cup IssuedCodes, r \in JourneyRedirects :
          CodePostWith(EmailU, c, r)
    \/ \E c \in {NoCookie} \cup IssuedTokens : Verify(HostApp, c)
    \/ \E c \in IssuedTokens : Logout(c)
    \/ TokenCleanupTick
    \/ Respond

SpecJourney == InitOtp /\ [][NextJourney]_vars

\* both ledgers with both sweeps, one identity
NextSweep ==
    \/ Tick
    \/ LoginPost(EmailU, <<0, 0, 0, 0, 0, 0>>)
    \/ \E c \in {DevCode, WrongCode} : CodePost(EmailU, c)
    \/ \E c \in IssuedTokens : AccessToken(c)
    \/ \E c \in IssuedTokens : User(Bearer \o <<" ">> \o c, NoCookie)
    \/ \E c \in IssuedTokens : Verify(HostApp, c)
    \/ OtpCleanupTick
    \/ TokenCleanupTick
    \/ Respond

SpecSweep == InitDisk /\ [][NextSweep]_vars

\* sessions come and go while the saves of the auto-save timer run and any
\* of their file operations may reject; the process stays alive
NextRetry ==
    \/ LoginPost(EmailU, <<0, 0, 0, 0, 0, 0>>)
    \/ CodePost(EmailU, DevCode)
    \/ \E c \in IssuedTokens : Logout(c)
    \/ \E c \in IssuedTokens : Verify(HostApp, c)
    \/ AutoSaveTick
    \/ SaveSerialize
    \/ SaveWritten
    \/ SaveRenamed
    \/ SaveFailed
    \/ Respond

SpecRetry == InitDisk /\ [][NextRetry]_vars

\* sessions are opened, looked up and logged out while the auto-save timer
\* fires and the process dies and starts again from the snapshot
NextLogout ==
    \/ \E c \in IssuedTokens : Verify(HostApp, c)
    \/ LoginPost(EmailU, <<0, 0, 0, 0, 0, 0>>)
    \/ CodePost(EmailU, DevCode)
    \/ \E c \in IssuedTokens : Logout(c)
    \/ AutoSaveNoted
    \/ SaveSerialize
    \/ SaveWritten
    \/ SaveRenamed
    \/ Crash
    \/ Start
    \/ Respond

SpecLogout == InitDisk /\ [][NextLogout]_vars

\* sessions are opened until a termination signal arrives, and none after
\* it; the timer saves, shutdown() saves, no file operation rejects
NextQuiesce ==
    \/ shutPc = "none" /\ LoginPost(EmailU, <<0, 0, 0, 0, 0, 0>>)
    \/ shutPc = "none" /\ CodePost(EmailU, DevCode)
    \/ AutoSaveTick
    \/ SaveSerialize
    \/ SaveWritten
    \/ SaveRenamed
    \/ Signal
    \/ ShutSerialize
    \/ ShutWritten
    \/ ShutRenamed
    \/ ServerClosed
    \/ ForcedExit
    \/ Respond

SpecQuiesce == InitDisk /\ [][NextQuiesce]_vars

\* login POSTs for one identity, in three spellings, arrive in production
\* while the mail of earlier ones is still being sent
NextRace ==
    \/ Tick
    \/ \E e \in {EmailU, EmailUUpper, EmailUSpaced}, b \in RandomBytes :
          LoginPost(e, b)
    \/ \E m \in mailQueue, sent \in BOOLEAN : MailDone(m, sent)
    \/ OtpCleanupTick
    \/ Respond

\* started in production
InitRace == Init /\ env = ProdEnv

SpecRace == InitRace /\ [][NextRace]_vars

\* the handlers that touch the token ledger, the saves of the timer and the
\* death and start of the process, within the lifetime of the tokens; the
\* address is typed in capitals
NextLedger ==
    \/ LoginPost(EmailUUpper, <<0, 0, 0, 0, 0, 0>>)
    \/ CodePost(EmailUUpper, DevCode)
    \/ \E c \in IssuedTokens : AccessToken(c)
    \/ \E c \in IssuedTokens : Verify(HostApp, c)
    \/ \E c \in IssuedTokens : Logout(c)
    \/ AutoSaveTick
    \/ SaveSerialize
    \/ SaveWritten
    \/ SaveRenamed
    \/ Crash
    \/ Start
    \/ Respond

SpecLedger == InitDisk /\ [][NextLedger]_vars

\* addresses a login POST may carry: none, two that miss the pattern, one
\* too long, and two that pass
LoginInputs == {Str0, EmailNoDot, EmailUSpaced, EmailTooLong, EmailMax, EmailU}

\* login POSTs with well-formed and ill-formed addresses
NextInput ==
    \/ Tick
    \/ \E e \in LoginInputs : LoginPost(e, <<0, 1, 0, 1, 0, 1>>)
    \/ \E m \in mailQueue : MailDone(m, TRUE)
    \/ Respond

SpecInput == InitOtp /\ [][NextInput]_vars

----------------------------------------------------------------------------
(* Properties of GET /verify, GET /access_token and the token ledger,
   checked under Spec *)

\* C1: when the host check does not reject the request, GET /verify answers
\* 200 with the identity header i exactly when the cookie it received names an
\* entry of the ledger that is not expired, has type session and identity i;
\* in every other case it answers 302 to the login page without an identity
\* header.
C1_VerifyDecision ==
    [][(resp'.op = "verify" /\ resp'.status # 403) =>
          LET c == resp'.cookie
              live == /\ MapHas(tokenStore, c)
                      /\ ~(now > tokenStore[c].expiresAt)
                      /\ tokenStore[c].type = "session"
          IN  IF live
              THEN resp'.status = 200 /\ resp'.xuser = tokenStore[c].email
              ELSE /\ resp'.status = 302
                   /\ resp'.location = "login"
                   /\ resp'.xuser = Str0]_vars

\* GET /verify answered 200 for the live session token of v@x.y
C1_Witness ==
    /\ resp.op = "verify"
    /\ resp.status = 200
    /\ resp.xuser = EmailV
    /\ MapHas(tokenStore, resp.cookie)
    /\ tokenStore[resp.cookie].type = "session"

\* C5: a token stored for identity i under a type is found by a lookup that
\* requires this type, which returns the normalized i, and is not found by a
\* lookup that requires the other type, for as long as it is not expired; the
\* verify, user and access-token handlers never look a token up without a
\* required type.
C5_TypeIsolation ==
    /\ \A k \in DOMAIN tokenStore :
          ~(now > tokenStore[k].expiresAt) =>
             /\ tokenStore[k].type \in {"session", "access"}
             /\ \A ty \in {"session", "access"} :
                   LET r == getEmail(tokenStore, k, ty, now)
                   IN  IF ty = tokenStore[k].type
                       THEN r.found /\ r.email = tokenStore[k].email
                       ELSE ~r.found /\ r.email = Str0
    /\ (resp.op = "code" /\ resp.setCookie # Str0) =>
          /\ getEmail(tokenStore, resp.setCookie, "session", now)
                = [found |-> TRUE, email |-> normalizeEmail(resp.email),
                   store |-> tokenStore]
          /\ ~getEmail(tokenStore, resp.setCookie, "access", now).found
    /\ (resp.op = "access_token" /\ resp.status = 200) =>
          /\ getEmail(tokenStore, resp.body, "access", now)
                = [found |-> TRUE,
                   email |-> getEmail(tokenStore, resp.cookie, "session", now).email,
                   store |-> tokenStore]
          /\ ~getEmail(tokenStore, resp.body, "session", now).found
    /\ resp.op \in {"verify", "user", "access_token"} =>
          resp.lookup \in {"none", "session", "access"}

\* POST /code was sent U@X.y and the session token it minted is found as a
\* session token of u@x.y
C5_Witness ==
    /\ resp.op = "code"
    /\ resp.email = EmailUUpper
    /\ resp.setCookie # Str0
    /\ getEmail(tokenStore, resp.setCookie, "session", now).email = EmailU

\* C7: GET /access_token answers 200 and adds one new access token that
\* carries the identity of the session exactly when its cookie names a live
\* session token; otherwise it answers 401 and adds no entry to the ledger.
C7_AccessTokenNeedsSession ==
    [][resp'.op = "access_token" =>
          LET c == resp'.cookie
              live == /\ MapHas(tokenStore, c)
                      /\ ~(now > tokenStore[c].expiresAt)
                      /\ tokenStore[c].type = "session"
          IN  IF live
              THEN /\ resp'.status = 200
                   /\ ~MapHas(tokenStore, resp'.body)
                   /\ tokenStore' = MapSet(tokenStore, resp'.body,
                                           [tokenStore'[resp'.body] EXCEPT
                                               !.type = "access",
                                               !.email = tokenStore[c].email])
              ELSE /\ resp'.status = 401
                   /\ resp'.body = Str0
                   /\ DOMAIN tokenStore' \subseteq DOMAIN tokenStore
                   /\ \A k \in DOMAIN tokenStore' :
                         tokenStore'[k] = tokenStore[k]]_vars

\* GET /access_token answered 200 and its token is in the ledger as an access
\* token of the identity of the session
C7_Witness ==
    /\ resp.op = "access_token"
    /\ resp.status = 200
    /\ MapHas(tokenStore, resp.body)
    /\ tokenStore[resp.body].type = "access"
    /\ MapHas(tokenStore, resp.cookie)
    /\ tokenStore[resp.body].email = tokenStore[resp.cookie].email

----------------------------------------------------------------------------
(* Properties of the OTP ledger behind POST /login and POST /code, checked
   under SpecOtp *)

\* C2: a code is good for one verification: the verification that accepts the
\* code deletes the entry of the identity, and once a code of an identity was
\* accepted, POST /code with the same code fails and sets no cookie until a
\* new code is issued for the identity.
C2_OneTimeUse ==
    [][resp'.op = "code" =>
          LET id == normalizeEmail(resp'.email)
          IN  /\ resp'.setCookie # Str0 => ~MapHas(otpStore', id)
              /\ ( /\ MapHas(issued, id)
                   /\ issued[id].used
                   /\ normalizeCode(resp'.code) = issued[id].code )
                 => /\ resp'.status = 400
                    /\ resp'.setCookie = Str0
                    /\ tokenStore' = tokenStore]_vars

\* POST /code refused the code it accepted before
C2_Witness ==
    /\ resp.op = "code"
    /\ resp.status = 400
    /\ MapHas(issued, normalizeEmail(resp.email))
    /\ issued[normalizeEmail(resp.email)].used
    /\ normalizeCode(resp.code) = issued[normalizeEmail(resp.email)].code
    /\ tokenStore # EmptyMap

\* C3: after MAX_ATTEMPTS wrong codes were tried against the entry of an
\* identity, POST /code fails for every code, the issued one included, and
\* mints no session, as long as no new code is issued for the identity.
C3_AttemptLimit ==
    [][resp'.op = "code" =>
          LET id == normalizeEmail(resp'.email)
          IN  (MapHas(wrongGuesses, id) /\ wrongGuesses[id] >= MAX_ATTEMPTS)
                 => /\ resp'.status = 400
                    /\ resp'.setCookie = Str0
                    /\ tokenStore' = tokenStore
                    /\ nextToken' = nextToken]_vars

\* POST /code refused the issued code of an entry that is still pending and
\* not expired, after MAX_ATTEMPTS wrong codes
C3_Witness ==
    /\ resp.op = "code"
    /\ resp.status = 400
    /\ MapHas(wrongGuesses, normalizeEmail(resp.email))
    /\ wrongGuesses[normalizeEmail(resp.email)] >= MAX_ATTEMPTS
    /\ normalizeCode(resp.code) = issued[normalizeEmail(resp.email)].code
    /\ MapHas(otpStore, normalizeEmail(resp.email))
    /\ ~(now > otpStore[normalizeEmail(resp.email)].expiresAt)
    /\ otpStore[normalizeEmail(resp.email)].attempts = MAX_ATTEMPTS

\* C4: the OTP ledger holds at most one entry per normalized identity, under
\* the normalized identity; a code issued while another code of the identity
\* was pending supersedes it: POST /code with the earlier code fails, and
\* only the code issued last is ever accepted.
C4_SingleLiveCode ==
    [][/\ \A k \in DOMAIN otpStore' : normalizeEmail(k) = k
       /\ resp'.op = "code" =>
             LET id == normalizeEmail(resp'.email)
             IN  /\ ( /\ MapHas(issued, id)
                      /\ issued[id].replaced # Str0
                      /\ normalizeCode(resp'.code) = issued[id].replaced )
                    => resp'.status = 400 /\ resp'.setCookie = Str0
                 /\ resp'.setCookie # Str0
                    => /\ MapHas(issued, id)
                       /\ normalizeCode(resp'.code) = issued[id].code]_vars

\* POST /code refused the superseded code while the entry of the code that
\* replaced it is pending and not expired
C4_Witness ==
    /\ resp.op = "code"
    /\ resp.status = 400
    /\ MapHas(issued, normalizeEmail(resp.email))
    /\ issued[normalizeEmail(resp.email)].replaced # Str0
    /\ normalizeCode(resp.code) = issued[normalizeEmail(resp.email)].replaced
    /\ MapHas(otpStore, normalizeEmail(resp.email))
    /\ ~(now > otpStore[normalizeEmail(resp.email)].expiresAt)
    /\ otpStore[normalizeEmail(resp.email)].attempts < MAX_ATTEMPTS

----------------------------------------------------------------------------
(* Properties of the host trust check of GET /verify, checked under SpecHost *)

\* C8: GET /verify answers 403 exactly when an allow-list is configured and
\* the host trust decision for the declared host is invalid; when no
\* allow-list is configured it never answers 403, whatever the declared host.
C8_RejectNeedsAllowList ==
    resp.op = "verify" =>
       /\ resp.status = 403 <=>
             /\ env.allowedSubdomains # Str0
             /\ ~validateSubdomain(resp.host, env.domain,
                                   env.allowedSubdomains).isValid
       /\ env.allowedSubdomains = Str0 => resp.status \in {200, 302}

\* with an allow-list, GET /verify answered 403 to a host that is not on it
C8_Witness ==
    /\ resp.op = "verify"
    /\ resp.status = 403
    /\ env.domain = DomainXY
    /\ env.allowedSubdomains = AllowA
    /\ resp.host = HostOther

\* C9: a request the host check rejects is answered 403 before the cookie is
\* looked at: whatever token it carries, a live session token included, no
\* ledger lookup takes place, the ledger is left as it was (no lazy deletion
\* of an expired entry) and no identity header is set.
C9_RejectBeforeCookie ==
    [][( /\ resp'.op = "verify"
         /\ env.allowedSubdomains # Str0
         /\ ~validateSubdomain(resp'.host, env.domain,
                               env.allowedSubdomains).isValid )
          => /\ resp'.status = 403
             /\ resp'.lookup = "none"
             /\ resp'.xuser = Str0
             /\ resp'.setCookie = Str0
             /\ tokenStore' = tokenStore]_vars

\* GET /verify answered 403 to a request that carried a live session token
C9_Witness ==
    /\ resp.op = "verify"
    /\ resp.status = 403
    /\ MapHas(tokenStore, resp.cookie)
    /\ tokenStore[resp.cookie].type = "session"
    /\ ~(now > tokenStore[resp.cookie].expiresAt)

----------------------------------------------------------------------------
(* Properties of logout and of the snapshot file, checked under SpecDisk *)

\* C6 as stated: after a logout that presented a session token of the ledger,
\* no later GET /verify with this token answers 200.
C6_LogoutForever ==
    [][(resp'.op = "verify" /\ MapHas(loggedOut, resp'.cookie))
          => resp'.status = 302]_vars

\* C6: a logout removes the presented token from the ledger, clears the
\* cookie and redirects to login; with no cookie or a token the ledger does
\* not hold it changes nothing in the ledger; after a logout that presented a
\* session token of the ledger, every later GET /verify with this token
\* answers 302, never 200, unless the process was started again since and
\* loaded the token from a snapshot that still held it.
C6_LogoutInvalidates ==
    [][/\ resp'.op = "logout" =>
             /\ ~MapHas(tokenStore', resp'.cookie)
             /\ resp'.status = 302
             /\ resp'.location = "login"
             /\ resp'.clearCookie
             /\ ~MapHas(tokenStore, resp'.cookie) => tokenStore' = tokenStore
       /\ ( /\ resp'.op = "verify"
            /\ MapHas(loggedOut, resp'.cookie)
            /\ loggedOut[resp'.cookie] \notin {"restored", "revived"} )
          => resp'.status = 302 /\ resp'.xuser = Str0]_vars

\* GET /verify answered 302 to a token a logout removed, while another
\* session is live
C6_Witness ==
    /\ resp.op = "verify"
    /\ resp.status = 302
    /\ MapHas(loggedOut, resp.cookie)
    /\ loggedOut[resp.cookie] = "out"
    /\ tokenStore # EmptyMap

\* C10: the destination file of the snapshot is never a partly written
\* document: it is absent or a complete document, and it changes only by the
\* rename of a temporary file that one save has written completely.
C10_SnapshotNeverPartial ==
    [][/\ file'.kind \in {"absent", "json"}
       /\ file' # file =>
             /\ savePc = "rename"
             /\ isSaving
             /\ tmpFile.kind = "json"
             /\ file' = tmpFile]_vars

\* the process died while a save was writing the temporary file, and the
\* destination still holds the complete snapshot of an earlier save
C10_Witness ==
    /\ proc = "down"
    /\ tmpFile.kind = "partial"
    /\ file.kind = "json"
    /\ file.tokens # << >>

----------------------------------------------------------------------------
(* Properties of the saves, of the start and of the shutdown, checked under
   SpecLife *)

\* C11: at most one saveToFile is between setting isSaving and clearing it,
\* whether the timer or shutdown() called it, and isSaving is set exactly
\* while one is; the saveToFile of shutdown() that finds a save in progress
\* returns without touching the files, and shutdown() goes on to server.close
\* and never saves later.
C11_OneSaveInFlight ==
    [][LET timerSave == IF savePc' # "idle" THEN 1 ELSE 0
           shutdownSave == IF shutPc' \in {"mkdir", "write", "rename"}
                           THEN 1 ELSE 0
       IN  /\ timerSave + shutdownSave <= 1
           /\ isSaving' <=> timerSave + shutdownSave = 1
           /\ (shutPc = "none" /\ shutPc' # "none" /\ isSaving)
                 => /\ shutPc' = "closing"
                    /\ UNCHANGED <<file, tmpFile, savePc, saveData, isSaving>>
           /\ shutPc = "closing" => shutPc' \in {"closing", "none"}]_vars

\* the signal came while the save of the timer was being written: shutdown()
\* is past its saveToFile and the save of the timer is still the one in flight
C11_Witness ==
    /\ shutPc = "closing"
    /\ savePc = "write"
    /\ isSaving
    /\ proc = "running"

----------------------------------------------------------------------------
(* Properties of the snapshot over time, checked under SpecRestore *)

\* C12 as stated: the document saveToFile writes lists exactly the entries of
\* the ledger that are not expired when it is made, and loadFromFile into the
\* empty ledger of a new process yields exactly the entries of the document,
\* unchanged, that are not expired at load time (expired as lookup and sweep
\* have it: now > expiresAt).
C12_RoundTrip ==
    [][/\ (savePc = "mkdir" /\ savePc' = "write") =>
             LET doc == saveData'.tokens
                 live == {k \in DOMAIN tokenStore :
                             ~(now > tokenStore[k].expiresAt)}
             IN  /\ saveData'.kind = "json"
                 /\ Len(doc) = Cardinality(live)
                 /\ Elements(doc) = {<<k, tokenStore[k]>> : k \in live}
       /\ (proc = "down" /\ proc' = "running" /\ file.kind = "json") =>
             LET keep == {p \in Elements(file.tokens) :
                             ~(now > p[2].expiresAt)}
             IN  /\ DOMAIN tokenStore' = {p[1] : p \in keep}
                 /\ \A p \in keep : tokenStore'[p[1]] = p[2]]_vars

----------------------------------------------------------------------------
(* Property of the auto-save, checked under SpecSync *)

\* C13 as stated: once the ledger is no longer changed, and with the auto-save
\* timer firing and no storage error, the snapshot on disk comes to list
\* exactly the entries of the ledger that are not expired, and stays so.
C13_EventuallyConsistent ==
    <>[](LET snapshot == IF file.kind = "json" THEN Elements(file.tokens)
                         ELSE {}
             live == {k \in DOMAIN tokenStore : ~(now > tokenStore[k].expiresAt)}
         IN  snapshot = {<<k, tokenStore[k]>> : k \in live})

\* C14: after a termination signal the process eventually exits, with code 0
\* or with code 1, whether or not the final save or the server close ever
\* completes.
C14_BoundedShutdown ==
    (shutPc # "none") ~> (proc \in {"exit0", "exit1"})

\* C15: a start whose writability check fails in production ends the process
\* with code 1 before it loads the ledger or listens, and no request is
\* answered afterwards; every other start, a failed check outside production
\* included, loads the snapshot and listens; requests are answered only by a
\* listening process.
C15_ReadinessCheck ==
    [][/\ (proc = "down" /\ proc' # "down") =>
             IF ~writable /\ NodeEnv(env) = "production"
             THEN /\ proc' = "exit1"
                  /\ tokenStore' = tokenStore
                  /\ resp' = NoResp
             ELSE /\ proc' = "running"
                  /\ tokenStore' = loadFromFile(tokenStore, file, now)
       /\ proc \in {"exit0", "exit1"} => (proc' = proc /\ resp' = NoResp)
       /\ (resp = NoResp /\ resp' # NoResp) => proc = "running"]_vars

\* the process refused to start: exit code 1 without a shutdown
C15_Witness ==
    /\ proc = "exit1"
    /\ shutPc = "none"
    /\ ~writable
    /\ NodeEnv(env) = "production"

----------------------------------------------------------------------------
(* Properties of POST /login and POST /code, checked under SpecOtp *)

\* C16: canRequestOTP answers true for an identity without an entry; for an
\* identity with an entry, at every time from lastRequestAt on, it answers
\* true exactly when the cooldown window since lastRequestAt has elapsed or
\* the entry has expired; in the state POST /login leaves right after
\* storeOTP, it answers false for the identity of the request.
C16_Cooldown ==
    /\ canRequestOTP(otpStore, EmailV, now).ok
    /\ \A id \in DOMAIN otpStore :
          \A t \in otpStore[id].lastRequestAt..(otpStore[id].expiresAt + 1) :
             canRequestOTP(otpStore, id, t).ok <=>
                \/ t - otpStore[id].lastRequestAt >= OTP_REQUEST_COOLDOWN_MS
                \/ t > otpStore[id].expiresAt
    /\ (/\ resp.op = "login"
        /\ \/ resp.status = 0
           \/ resp.status = 302 /\ NodeEnv(env) = "development") =>
          LET id == normalizeEmail(resp.email)
          IN  /\ MapHas(otpStore, id)
              /\ otpStore[id].lastRequestAt = now
              /\ ~canRequestOTP(otpStore, resp.email, now).ok

\* POST /login stored a second code for an identity whose first code was still
\* pending: the window of the first request had elapsed
C16_Witness ==
    /\ resp.op = "login"
    /\ MapHas(otpStore, normalizeEmail(resp.email))
    /\ otpStore[normalizeEmail(resp.email)].lastRequestAt = now
    /\ now >= OTP_REQUEST_COOLDOWN_MS
    /\ MapHas(issued, normalizeEmail(resp.email))
    /\ issued[normalizeEmail(resp.email)].replaced # Str0

\* C17: a POST /login whose identity has a live entry younger than the
\* cooldown window changes neither the OTP ledger nor the queue of outgoing
\* mail nor the token ledger: no code is issued and the pending entry keeps
\* its hash, attempts and timestamps; it answers 429 when its address passes
\* the format check that precedes the cooldown check.
C17_CooldownRejects ==
    [][(/\ resp = NoResp
        /\ resp'.op = "login"
        /\ mailQueue \subseteq mailQueue'
        /\ LET id == normalizeEmail(resp'.email)
           IN  /\ MapHas(otpStore, id)
               /\ ~(now > otpStore[id].expiresAt)
               /\ now - otpStore[id].lastRequestAt < OTP_REQUEST_COOLDOWN_MS)
          => /\ validateEmail(resp'.email) => resp'.status = 429
             /\ resp'.status \in {400, 429}
             /\ otpStore' = otpStore
             /\ mailQueue' = mailQueue
             /\ issued' = issued
             /\ tokenStore' = tokenStore]_vars

\* POST /login answered 429 in production for an identity whose entry has
\* counted a wrong guess
C17_Witness ==
    /\ resp.op = "login"
    /\ resp.status = 429
    /\ NodeEnv(env) = "production"
    /\ MapHas(otpStore, normalizeEmail(resp.email))
    /\ otpStore[normalizeEmail(resp.email)].attempts > 0
    /\ otpStore[normalizeEmail(resp.email)].lastRequestAt = now

\* C18: when sendOTPEmail settles, POST /login answers 302 or 500, the process
\* keeps running and the OTP ledger is left as it was; after the answer 500
\* the entry stored by the request, when it is still pending, accepts the
\* code that was not delivered, and a POST /login for the identity issues a
\* code again once the cooldown window since its last request has passed.
C18_MailFailure ==
    [][(/\ resp = NoResp
        /\ resp'.op = "login"
        /\ \E m \in mailQueue : m \notin mailQueue')
          => /\ resp'.status \in {302, 500}
             /\ proc' = "running"
             /\ otpStore' = otpStore
             /\ resp'.status = 500 =>
                   \A m \in mailQueue \ mailQueue' :
                      LET id == normalizeEmail(m.email)
                          pending == /\ MapHas(otpStore, id)
                                     /\ otpStore[id].codeHash
                                          = hashCode(normalizeCode(m.code))
                                     /\ ~(now > otpStore[id].expiresAt)
                                     /\ otpStore[id].attempts < MAX_ATTEMPTS
                      IN  /\ m.email = resp'.email
                          /\ pending =>
                                /\ verifyOTP(otpStore', m.email, m.code, now).ok
                                /\ \A b \in RandomBytes :
                                      loginHandler(otpStore',
                                                   otpStore[id].lastRequestAt
                                                     + OTP_REQUEST_COOLDOWN_MS,
                                                   env, m.email, b).issue
                          /\ ~MapHas(otpStore, id) =>
                                \A b \in RandomBytes :
                                   loginHandler(otpStore', now, env,
                                                m.email, b).issue]_vars

\* POST /login answered 500 and the code it stored is still pending
C18_Witness ==
    /\ resp.op = "login"
    /\ resp.status = 500
    /\ MapHas(otpStore, normalizeEmail(resp.email))
    /\ ~(now > otpStore[normalizeEmail(resp.email)].expiresAt)
    /\ otpStore[normalizeEmail(resp.email)].attempts = 0
    /\ MapHas(issued, normalizeEmail(resp.email))
    /\ ~issued[normalizeEmail(resp.email)].used

\* C19: a POST /code that carries an address and a code and is not answered
\* with the session cookie is answered with status 400 and the one text
\* "Invalid or expired code", whether the identity has no pending entry, the
\* entry is expired, its attempts are exhausted or the code is wrong; the
\* response differs between two such requests only in what the request
\* itself carried.
C19_OneRejection ==
    [][(/\ resp = NoResp
        /\ resp'.op = "code"
        /\ resp'.email # Str0
        /\ resp'.code # Str0)
          => LET id == normalizeEmail(resp'.email)
                 cause == IF ~MapHas(otpStore, id) THEN "no entry"
                          ELSE IF now > otpStore[id].expiresAt THEN "expired"
                          ELSE IF otpStore[id].attempts >= MAX_ATTEMPTS
                          THEN "exhausted"
                          ELSE IF otpStore[id].codeHash
                                    # hashCode(normalizeCode(resp'.code))
                          THEN "wrong code"
                          ELSE "match"
             IN  IF cause = "match"
                 THEN resp'.status = 302 /\ resp'.setCookie # Str0
                 ELSE resp' = [NoResp EXCEPT !.op = "code",
                                             !.email = resp'.email,
                                             !.code = resp'.code,
                                             !.status = 400,
                                             !.body = InvalidOrExpiredCode]]_vars

\* POST /code rejected the code that was issued, with the common text, because
\* the attempts of the entry are used up
C19_Witness ==
    /\ resp.op = "code"
    /\ resp.status = 400
    /\ resp.body = InvalidOrExpiredCode
    /\ MapHas(otpStore, normalizeEmail(resp.email))
    /\ otpStore[normalizeEmail(resp.email)].attempts >= MAX_ATTEMPTS
    /\ otpStore[normalizeEmail(resp.email)].codeHash
         = hashCode(normalizeCode(resp.code))

----------------------------------------------------------------------------
(* Properties of validateRedirectUrl, checked under SpecRedirect *)

\* C20: validateRedirectUrl returns its input or "/"; it returns the input
\* exactly when the input is a path that begins with one "/" and not with
\* "//", or an absolute URL of scheme http or https whose host is the base
\* domain or ends with "." and the base domain.
C20_RedirectSanitizer ==
    resp.op = "loginPage" =>
       LET s == resp.redirect
           base == Domain(env)
           relative == startsWith(s, <<"/">>) /\ ~startsWith(s, <<"/", "/">>)
           absolute == \/ startsWith(toLowerCase(s), Https)
                       \/ startsWith(toLowerCase(s), Http)
           url == URLHostname(toLowerCase(s))
           onBase == /\ url.ok
                     /\ \/ url.hostname = base
                        \/ endsWith(url.hostname, <<".">> \o base)
       IN  /\ resp.body \in {s, <<"/">>}
           /\ resp.body = s <=> (relative \/ (absolute /\ onBase))

----------------------------------------------------------------------------
(* Properties of GET /user with a header and a cookie, checked under SpecUser *)

\* C21: a GET /user whose authorization header is "Bearer k" is decided by k
\* alone: 200 with the identity of k when k is an unexpired access token of
\* the ledger, 401 otherwise, whatever cookie comes with it, a live session
\* cookie included; the cookie is not looked up.
C21_BearerPrecedence ==
    [][(/\ resp = NoResp
        /\ resp'.op = "user"
        /\ Len(resp'.auth) = 3
        /\ resp'.auth[1] = "Bearer"
        /\ resp'.auth[2] = " ")
          => LET k == <<resp'.auth[3]>>
                 live == /\ MapHas(tokenStore, k)
                         /\ ~(now > tokenStore[k].expiresAt)
                         /\ tokenStore[k].type = "access"
             IN  /\ resp'.lookup = "access"
                 /\ IF live
                    THEN resp'.status = 200 /\ resp'.body = tokenStore[k].email
                    ELSE resp'.status = 401 /\ resp'.body = Str0
                 /\ (resp'.cookie # k /\ MapHas(tokenStore, resp'.cookie))
                      => MapHas(tokenStore', resp'.cookie)]_vars

\* GET /user answered 401 for a bearer token that is no access token although
\* the cookie of the request is a live session token
C21_Witness ==
    /\ resp.op = "user"
    /\ resp.status = 401
    /\ resp.lookup = "access"
    /\ resp.auth # Str0
    /\ MapHas(tokenStore, resp.cookie)
    /\ tokenStore[resp.cookie].type = "session"
    /\ ~(now > tokenStore[resp.cookie].expiresAt)

\* C22: a GET /user whose authorization header is present and is not of the
\* form "Bearer <token>" is answered with 400, with or without a cookie.
C22_MalformedBearer ==
    (/\ resp.op = "user"
     /\ resp.auth # Str0
     /\ ~(/\ Len(split(resp.auth, " ")) = 2
          /\ split(resp.auth, " ")[1] = Bearer
          /\ split(resp.auth, " ")[2] # Str0))
       => resp.status = 400

----------------------------------------------------------------------------
(* Properties of the code choice of POST /login, checked under SpecPosture *)

\* C23: when POST /login stores a code in production, the code comes from
\* the random generator and is handed to the mail collaborator; the fixed
\* code AAAAAA is stored without a mail only when NODE_ENV is set to
\* "development".
C23_FixedCodeOnlyInDevelopment ==
    [][(/\ resp = NoResp
        /\ resp'.op = "login"
        /\ otpStore' # otpStore)
          => LET id == normalizeEmail(resp'.email)
                 mailed == mailQueue' \ mailQueue
             IN  /\ env.nodeEnv = "production" =>
                       /\ \E m \in mailed :
                             /\ m.email = resp'.email
                             /\ m.code \in {generateCode(b) : b \in RandomBytes}
                             /\ otpStore'[id].codeHash = hashCode(normalizeCode(m.code))
                 /\ (mailed = {} /\ otpStore'[id].codeHash = hashCode(DevCode))
                       => env.nodeEnv = "development"]_vars

----------------------------------------------------------------------------
(* Properties of loadFromFile, checked under SpecVersions *)

\* C24: a start that finds a snapshot whose version is not 1 loads none of
\* its entries, and the process runs on with the ledger it had.
C24_UnknownVersionIgnored ==
    [][(/\ proc = "down"
        /\ proc' # "down"
        /\ file.kind = "json"
        /\ file.version # 1)
          => /\ proc' = "running"
             /\ tokenStore' = tokenStore]_vars

----------------------------------------------------------------------------
(* Properties of validateSubdomain, checked under SpecTable *)

\* C25: the decision of validateSubdomain for a declared host h.  Without a
\* base domain it is valid exactly when h is not empty.  With a base domain d
\* it is invalid when h is neither d nor ends with "." and d (letters
\* compared without case); under the allow-list "*" it is valid for d and
\* for every h made of labels followed by "." and d; under a list of labels
\* it is valid for d exactly when the list holds "" or "@", and for another
\* h exactly when h is made of labels followed by "." and d and what stands
\* before that is a member of the list.
C25_HostTrustTable ==
    resp.op = "verify" =>
       LET h == resp.host
           d == env.domain
           list == env.allowedSubdomains
           members == {trim(m) : m \in Elements(split(list, ","))}
           r == validateSubdomain(h, d, list)
           isBase == toLowerCase(h) = toLowerCase(d)
           isSub == /\ Len(h) > Len(d) + 1
                    /\ endsWith(toLowerCase(h), <<".">> \o toLowerCase(d))
           label == SubSeq(h, 1, Len(h) - Len(d) - 1)
           labelsOk == /\ isSub
                       /\ \A i \in 1..Len(label) :
                             label[i] = "." \/ IsLabelChar(label[i])
                       /\ label[1] # "." /\ label[Len(label)] # "."
                       /\ \A i \in 1..(Len(label) - 1) :
                             ~(label[i] = "." /\ label[i + 1] = ".")
       IN  IF d = Str0
           THEN r.isValid <=> h # Str0
           ELSE /\ ~(isBase \/ isSub) => ~r.isValid
                /\ list \in {Str0, Star} => (r.isValid <=> (isBase \/ labelsOk))
                /\ list \notin {Str0, Star} =>
                      IF isBase
                      THEN r.isValid <=> (Str0 \in members \/ At \in members)
                      ELSE r.isValid <=> (labelsOk /\ label \in members)

----------------------------------------------------------------------------
(* Properties of the whole login, checked under SpecJourney *)

\* C26: a POST /login with a valid address outside a cooldown stores a code
\* and, in development at once and in production when the mail is sent,
\* redirects to the code page; a POST /code with the pending code mints a
\* session token for the identity, sets it as cookie and redirects to the
\* sanitized redirect of the form; every GET /verify with the cookie of a
\* session token that is in the ledger and not expired answers 200 with its
\* identity, and a token leaves the ledger only by expiry or by the logout
\* that presents it.
C26_LoginJourney ==
    [][/\ (/\ resp = NoResp
           /\ resp'.op = "login"
           /\ mailQueue \subseteq mailQueue'
           /\ validateEmail(resp'.email)
           /\ canRequestOTP(otpStore, resp'.email, now).ok)
             => LET id == normalizeEmail(resp'.email)
                IN  /\ MapHas(otpStore', id)
                    /\ otpStore'[id].createdAt = now
                    /\ IF NodeEnv(env) = "development"
                       THEN resp'.status = 302 /\ resp'.location = "code"
                       ELSE \E m \in mailQueue' :
                               /\ m.email = resp'.email
                               /\ otpStore'[id].codeHash
                                    = hashCode(normalizeCode(m.code))
       /\ (resp = NoResp /\ resp'.op = "login" /\ resp'.status = 302)
             => resp'.location = "code"
       /\ (/\ resp = NoResp
           /\ resp'.op = "code"
           /\ MapHas(otpStore, normalizeEmail(resp'.email))
           /\ LET e == otpStore[normalizeEmail(resp'.email)]
              IN  /\ ~(now > e.expiresAt)
                  /\ e.attempts < MAX_ATTEMPTS
                  /\ e.codeHash = hashCode(normalizeCode(resp'.code)))
             => LET k == resp'.setCookie
                    v == validateRedirectUrl(resp'.redirect, Domain(env))
                IN  /\ resp'.status = 302
                    /\ k # Str0
                    /\ ~MapHas(tokenStore, k)
                    /\ MapHas(tokenStore', k)
                    /\ tokenStore'[k].email = normalizeEmail(resp'.email)
                    /\ tokenStore'[k].type = "session"
                    /\ tokenStore'[k].expiresAt = now + TOKEN_EXPIRATION_MS
                    /\ resp'.target = IF v[1] = "/"
                                      THEN Https \o Domain(env) \o v
                                      ELSE v
       /\ (/\ resp = NoResp
           /\ resp'.op = "verify"
           /\ MapHas(tokenStore, resp'.cookie)
           /\ tokenStore[resp'.cookie].type = "session"
           /\ ~(now > tokenStore[resp'.cookie].expiresAt))
             => /\ resp'.status = 200
                /\ resp'.xuser = tokenStore[resp'.cookie].email
       /\ \A k \in DOMAIN tokenStore :
             ~MapHas(tokenStore', k) =>
                \/ now > tokenStore[k].expiresAt
                \/ resp'.op = "logout" /\ resp'.cookie = k]_vars

\* in production GET /verify answered 200 for the session of u@x.y, minted by
\* a POST /code that redirected to a same-domain URL
C26_Witness ==
    /\ resp.op = "verify"
    /\ resp.status = 200
    /\ resp.xuser = EmailU
    /\ NodeEnv(env) = "production"
    /\ now >= 1

----------------------------------------------------------------------------
(* Properties of verifyOTP, getEmail and the sweeps *)

\* C27: a POST /code that reaches an unexpired entry with attempts below the
\* maximum either finds the digests different, and then the entry stays with
\* attempts one higher and nothing else changed, or finds them equal, and
\* then the entry is deleted; no other entry of the ledger changes.
C27_AttemptConsumed ==
    [][(/\ resp = NoResp
        /\ resp'.op = "code"
        /\ resp'.email # Str0
        /\ resp'.code # Str0
        /\ MapHas(otpStore, normalizeEmail(resp'.email))
        /\ ~(now > otpStore[normalizeEmail(resp'.email)].expiresAt)
        /\ otpStore[normalizeEmail(resp'.email)].attempts < MAX_ATTEMPTS)
          => LET id == normalizeEmail(resp'.email)
             IN  IF otpStore[id].codeHash = hashCode(normalizeCode(resp'.code))
                 THEN /\ resp'.status = 302
                      /\ otpStore' = MapDelete(otpStore, id)
                 ELSE /\ resp'.status = 400
                      /\ otpStore' = MapSet(otpStore, id,
                                            [otpStore[id] EXCEPT
                                               !.attempts = otpStore[id].attempts + 1])]_vars

\* a second wrong guess was counted and the entry is still there
C27_Witness ==
    /\ resp.op = "code"
    /\ resp.status = 400
    /\ MapHas(otpStore, normalizeEmail(resp.email))
    /\ otpStore[normalizeEmail(resp.email)].attempts = 2
    /\ otpStore[normalizeEmail(resp.email)].codeHash
         # hashCode(normalizeCode(resp.code))

\* C28: a POST /code for an identity whose entry has expired is rejected,
\* with the right code too, and the entry is deleted; a POST /code for an
\* identity without an entry is rejected and the ledger stays as it is.
C28_ExpiredInert ==
    [][(/\ resp = NoResp
        /\ resp'.op = "code"
        /\ resp'.email # Str0
        /\ resp'.code # Str0)
          => LET id == normalizeEmail(resp'.email)
             IN  /\ (MapHas(otpStore, id) /\ now > otpStore[id].expiresAt) =>
                       /\ resp'.status = 400
                       /\ resp'.setCookie = Str0
                       /\ otpStore' = MapDelete(otpStore, id)
                       /\ tokenStore' = tokenStore
                 /\ ~MapHas(otpStore, id) =>
                       /\ resp'.status = 400
                       /\ resp'.setCookie = Str0
                       /\ otpStore' = otpStore
                       /\ tokenStore' = tokenStore]_vars

\* the code that was issued and never used was rejected after its time and
\* the identity has no entry any more
C28_Witness ==
    /\ resp.op = "code"
    /\ resp.status = 400
    /\ now > OTP_EXPIRATION_MS
    /\ ~MapHas(otpStore, normalizeEmail(resp.email))
    /\ MapHas(issued, normalizeEmail(resp.email))
    /\ ~issued[normalizeEmail(resp.email)].used
    /\ normalizeCode(resp.code) = issued[normalizeEmail(resp.email)].code
    /\ wrongGuesses[normalizeEmail(resp.email)] = 0

\* C29: getEmail on a token whose expiresAt has passed finds nothing under
\* every required type, the type left out included, and removes the entry;
\* on an unexpired token of another type than the required one it finds
\* nothing and leaves the ledger as it is.  GET /user and GET /access_token
\* show it: the expired token they look up is gone afterwards and the
\* answer is 401, the token of the wrong type is refused with 401 and stays.
C29_ExpiredTokensInert ==
    [][/\ \A k \in DOMAIN tokenStore :
             \A ty \in {"", "session", "access"} :
                LET r == getEmail(tokenStore, k, ty, now)
                IN  /\ now > tokenStore[k].expiresAt =>
                          ~r.found /\ r.store = MapDelete(tokenStore, k)
                    /\ (/\ ~(now > tokenStore[k].expiresAt)
                        /\ ty # ""
                        /\ ty # tokenStore[k].type) =>
                          ~r.found /\ r.store = tokenStore
       /\ (/\ resp = NoResp
           /\ resp'.op \in {"user", "access_token"}
           /\ resp'.lookup \in {"session", "access"})
             => LET k == IF resp'.lookup = "access" /\ resp'.op = "user"
                         THEN <<resp'.auth[3]>>
                         ELSE resp'.cookie
                IN  MapHas(tokenStore, k) =>
                       /\ now > tokenStore[k].expiresAt =>
                             /\ resp'.status = 401
                             /\ tokenStore' = MapDelete(tokenStore, k)
                       /\ (/\ ~(now > tokenStore[k].expiresAt)
                           /\ tokenStore[k].type # resp'.lookup) =>
                             /\ resp'.status = 401
                             /\ tokenStore' = tokenStore]_vars

\* GET /user refused a bearer token that was handed out, never logged out,
\* and is gone from the ledger: its time had passed
C29_Witness ==
    /\ resp.op = "user"
    /\ resp.status = 401
    /\ resp.lookup = "access"
    /\ <<resp.auth[3]>> \in IssuedTokens
    /\ ~MapHas(tokenStore, <<resp.auth[3]>>)
    /\ ~MapHas(loggedOut, <<resp.auth[3]>>)
    /\ now > TOKEN_EXPIRATION_MS

\* C30: a sweep of either ledger takes away exactly the entries whose
\* expiresAt has passed and leaves the others as they are; and on every
\* ledger the program reaches, canRequestOTP, verifyOTP and getEmail give
\* the same result on the ledger and on the swept ledger, and the two
\* ledgers they leave are the same once swept, so that runs with and without
\* sweeps stay in step.
C30_SweepsNotNeeded ==
    [][/\ (resp = NoResp /\ resp' = NoResp /\ otpStore' # otpStore) =>
             /\ DOMAIN otpStore'
                   = {k \in DOMAIN otpStore : ~(now > otpStore[k].expiresAt)}
             /\ \A k \in DOMAIN otpStore' : otpStore'[k] = otpStore[k]
       /\ (resp = NoResp /\ resp' = NoResp /\ tokenStore' # tokenStore) =>
             /\ DOMAIN tokenStore'
                   = {k \in DOMAIN tokenStore : ~(now > tokenStore[k].expiresAt)}
             /\ \A k \in DOMAIN tokenStore' : tokenStore'[k] = tokenStore[k]
       /\ LET swept == otpCleanup(otpStore, now)
          IN  /\ LET a == canRequestOTP(otpStore, EmailU, now)
                     b == canRequestOTP(swept, EmailU, now)
                 IN  a.ok = b.ok /\ otpCleanup(a.store, now) = otpCleanup(b.store, now)
              /\ \A c \in {DevCode, WrongCode} :
                    LET a == verifyOTP(otpStore, EmailU, c, now)
                        b == verifyOTP(swept, EmailU, c, now)
                    IN  a.ok = b.ok
                        /\ otpCleanup(a.store, now) = otpCleanup(b.store, now)
       /\ LET swept == tokenCleanup(tokenStore, now)
          IN  \A k \in IssuedTokens \cup {GarbageToken} :
                 \A ty \in {"", "session", "access"} :
                    LET a == getEmail(tokenStore, k, ty, now)
                        b == getEmail(swept, k, ty, now)
                    IN  /\ a.found = b.found
                        /\ a.email = b.email
                        /\ tokenCleanup(a.store, now) = tokenCleanup(b.store, now)]_vars

\* GET /verify refused a cookie whose time had passed while another expired
\* token is still in the ledger, not swept yet
C30_Witness ==
    /\ resp.op = "verify"
    /\ resp.status = 302
    /\ resp.cookie \in IssuedTokens
    /\ ~MapHas(tokenStore, resp.cookie)
    /\ \E k \in DOMAIN tokenStore : now > tokenStore[k].expiresAt

----------------------------------------------------------------------------
(* Property of a save that fails, checked under SpecRetry *)

----------------------------------------------------------------------------
(* Property of logout across restarts, checked under SpecLogout *)

\* C32 as stated: once a logout has removed a session token and a callback
\* of the auto-save timer has run to its end after that logout, with no save
\* in progress, no later GET /verify presenting the token answers 200,
\* whatever requests, cycles, deaths of the process and starts with restore
\* follow.
C32_LogoutSurvivesRestart ==
    [][( /\ resp'.op = "verify"
         /\ MapHas(loggedOut, resp'.cookie)
         /\ loggedOut[resp'.cookie] \in {"cycled", "revived"} )
          => resp'.status = 302]_vars

----------------------------------------------------------------------------
(* Property of the graceful exit, checked under SpecQuiesce *)

\* C33 as stated: when the process exits with code 0 after a termination
\* signal, no file operation having rejected and no save being still in
\* flight, the snapshot on disk lists every entry of the ledger that is not
\* expired (the ledger has not changed since the signal), whether or not a
\* save of the timer was in flight when the signal came.
C33_ShutdownPersists ==
    [][(proc = "running" /\ proc' = "exit0" /\ savePc = "idle") =>
          \A k \in DOMAIN tokenStore :
              ~(now > tokenStore[k].expiresAt) =>
                  /\ file'.kind = "json"
                  /\ <<k, tokenStore[k]>> \in Elements(file'.tokens)]_vars

----------------------------------------------------------------------------
(* Property of concurrent login POSTs, checked under SpecRace *)

\* C34: a POST /login issues a code for an identity only when the OTP ledger
\* holds no entry for it, or an expired one, or one whose cooldown window has
\* elapsed, and in the same step the ledger holds the new entry with
\* lastRequestAt = now; between login POSTs an entry leaves the ledger only
\* when it has expired and its lastRequestAt does not change, so two codes of
\* one identity are never issued inside one cooldown window; a login POST
\* with a well-formed address that arrives inside the window, while the mail
\* of the issuing request is still awaited, answers 429 and changes nothing.
C34_NoDoubleIssue ==
    [][LET id == normalizeEmail(resp'.email)
           arrives == resp = NoResp /\ resp'.op = "login"
                         /\ mailQueue \subseteq mailQueue'
           issues == arrives /\ resp'.status \notin {400, 429}
           inWindow == /\ MapHas(otpStore, id)
                       /\ ~(now > otpStore[id].expiresAt)
                       /\ now - otpStore[id].lastRequestAt
                             < OTP_REQUEST_COOLDOWN_MS
       IN  /\ issues => /\ ~inWindow
                        /\ MapHas(otpStore', id)
                        /\ otpStore'[id].lastRequestAt = now
                        /\ \E m \in mailQueue' : normalizeEmail(m.email) = id
           /\ ~issues =>
                 \A k \in DOMAIN otpStore :
                     IF MapHas(otpStore', k)
                     THEN otpStore'[k].lastRequestAt = otpStore[k].lastRequestAt
                     ELSE now > otpStore[k].expiresAt
           /\ (arrives /\ inWindow /\ validateEmail(resp'.email)
                  /\ \E m \in mailQueue : normalizeEmail(m.email) = id) =>
                 /\ resp'.status = 429
                 /\ otpStore' = otpStore
                 /\ mailQueue' = mailQueue]_vars

\* POST /login answered 429 to another spelling of an identity whose code
\* was issued in this cooldown window and whose mail is still awaited
C34_Witness ==
    /\ resp.op = "login"
    /\ resp.status = 429
    /\ \E m \in mailQueue :
          /\ m.email # resp.email
          /\ normalizeEmail(m.email) = normalizeEmail(resp.email)
    /\ otpStore[normalizeEmail(resp.email)].lastRequestAt = now

----------------------------------------------------------------------------
(* Property of the origin of tokens, checked under SpecLedger *)

\* C35: an entry enters the token ledger only by a POST /code whose
\* verifyOTP succeeded, as a session token of the identity of that request,
\* by a GET /access_token whose cookie was a live session token, as an access
\* token of that session's identity, or by a start of the process, as an
\* entry of the snapshot; the snapshot and the document being written hold
\* only entries that were in the ledger when the document was serialized; an
\* entry that stays in the ledger keeps its identity, type and times.
C35_TokenProvenance ==
    [][/\ \A k \in DOMAIN tokenStore' \ DOMAIN tokenStore :
             \/ /\ resp'.op = "code"
                /\ verifyOTP(otpStore, resp'.email, resp'.code, now).ok
                /\ resp'.setCookie = k
                /\ tokenStore'[k].type = "session"
                /\ tokenStore'[k].email = normalizeEmail(resp'.email)
             \/ /\ resp'.op = "access_token"
                /\ MapHas(tokenStore, resp'.cookie)
                /\ tokenStore[resp'.cookie].type = "session"
                /\ ~(now > tokenStore[resp'.cookie].expiresAt)
                /\ resp'.body = k
                /\ tokenStore'[k].type = "access"
                /\ tokenStore'[k].email = tokenStore[resp'.cookie].email
             \/ /\ proc = "down" /\ proc' = "running"
                /\ file.kind = "json"
                /\ <<k, tokenStore'[k]>> \in Elements(file.tokens)
       /\ \A k \in DOMAIN tokenStore' \cap DOMAIN tokenStore :
             tokenStore'[k] = tokenStore[k]
       /\ saveData' # saveData /\ saveData'.kind = "json" =>
             \A p \in Elements(saveData'.tokens) :
                 MapHas(tokenStore, p[1]) /\ tokenStore[p[1]] = p[2]
       /\ tmpFile' # tmpFile /\ tmpFile'.kind = "json" => tmpFile' = saveData
       /\ file' # file => file' = tmpFile]_vars

\* an access token minted, for the identity in lower case, from a session
\* that the process had loaded from the snapshot after a death
C35_Witness ==
    /\ resp.op = "access_token"
    /\ resp.status = 200
    /\ MapHas(tokenStore, resp.body)
    /\ tokenStore[resp.body].type = "access"
    /\ file.kind = "json"
    /\ \E p \in Elements(file.tokens) : p[1] = resp.cookie
    /\ MapHas(loggedOut, resp.cookie)
    /\ loggedOut[resp.cookie] = "restored"
    /\ tokenStore[resp.body].email = EmailU

----------------------------------------------------------------------------
(* Property of the frame of logout, checked under SpecUser *)

\* C36: a logout removes from the token ledger the presented token and
\* nothing else: every other entry, session or access, of the same identity
\* or not, is in the ledger afterwards as it was, and the OTP ledger is
\* unchanged; GET /user with a bearer access token that is in the ledger and
\* not expired answers 200 with its identity, whether or not the session it
\* was minted from has been logged out.
C36_LogoutFrame ==
    [][/\ resp'.op = "logout" =>
             /\ DOMAIN tokenStore' = DOMAIN tokenStore \ {resp'.cookie}
             /\ \A k \in DOMAIN tokenStore' : tokenStore'[k] = tokenStore[k]
             /\ otpStore' = otpStore
       /\ \A k \in DOMAIN tokenStore :
             ( /\ resp'.op = "user"
               /\ resp'.auth = Bearer \o <<" ">> \o k
               /\ tokenStore[k].type = "access"
               /\ ~(now > tokenStore[k].expiresAt) )
             => /\ resp'.status = 200
                /\ resp'.body = tokenStore[k].email
                /\ tokenStore' = tokenStore]_vars

\* GET /user answered 200 to a bearer access token after the one session of
\* the ledger, from which it was minted, had been logged out
C36_Witness ==
    /\ resp.op = "user"
    /\ resp.status = 200
    /\ resp.lookup = "access"
    /\ \E k \in DOMAIN loggedOut : loggedOut[k] = "out"
    /\ \A k \in DOMAIN tokenStore : tokenStore[k].type = "access"
    /\ nextToken = 3

----------------------------------------------------------------------------
(* Property of the attempts counter, checked under SpecOtp *)

\* C37: the attempts of every entry of the OTP ledger are between 0 and
\* MAX_ATTEMPTS; an entry that stays in the ledger and is not replaced by
\* the storeOTP of a login keeps its attempts or has them raised by one, and
\* they are raised only by a POST /code for its identity that found them
\* below MAX_ATTEMPTS, which is the only place a digest is compared; a POST
\* /code that finds an unexpired entry at MAX_ATTEMPTS answers 400 whatever
\* the code and changes nothing; so at most MAX_ATTEMPTS comparisons are made
\* against one issued code.
C37_BoundedGuessing ==
    [][/\ \A id \in DOMAIN otpStore' :
             otpStore'[id].attempts \in 0..MAX_ATTEMPTS
       /\ \A id \in DOMAIN otpStore \cap DOMAIN otpStore' :
             IF /\ resp'.op = "login"
                /\ resp'.status \notin {400, 429}
                /\ mailQueue \subseteq mailQueue'
                /\ normalizeEmail(resp'.email) = id
             THEN otpStore'[id].attempts = 0 /\ otpStore'[id].createdAt = now
             ELSE /\ otpStore'[id].attempts >= otpStore[id].attempts
                  /\ otpStore'[id].attempts <= otpStore[id].attempts + 1
                  /\ otpStore'[id].codeHash = otpStore[id].codeHash
                  /\ otpStore'[id].attempts # otpStore[id].attempts =>
                        /\ resp'.op = "code"
                        /\ normalizeEmail(resp'.email) = id
                        /\ otpStore[id].attempts < MAX_ATTEMPTS
       /\ \A id \in DOMAIN otpStore :
             ( /\ resp'.op = "code"
               /\ normalizeEmail(resp'.email) = id
               /\ ~(now > otpStore[id].expiresAt)
               /\ otpStore[id].attempts >= MAX_ATTEMPTS )
             => /\ resp'.status = 400
                /\ otpStore' = otpStore
                /\ tokenStore' = tokenStore]_vars

\* POST /code answered 400 to the issued code of an entry whose attempts
\* stand at MAX_ATTEMPTS, in production
C37_Witness ==
    /\ resp.op = "code"
    /\ resp.status = 400
    /\ NodeEnv(env) = "production"
    /\ MapHas(otpStore, normalizeEmail(resp.email))
    /\ otpStore[normalizeEmail(resp.email)].attempts = MAX_ATTEMPTS
    /\ otpStore[normalizeEmail(resp.email)].codeHash
          = hashCode(normalizeCode(resp.code))

----------------------------------------------------------------------------
(* Property of the expiry boundary, checked under SpecRestore *)

\* C38 as stated: for every entry of the token ledger, at the present
\* instant, lookup (getEmail with the type of the entry) refuses it as
\* expired exactly when the sweep (cleanup) removes it and exactly when a
\* restore (loadFromFile of a snapshot that lists it) discards it.
C38_OneExpiryBoundary ==
    \A k \in DOMAIN tokenStore :
        LET one == [x \in {k} |-> tokenStore[k]]
            lookupExpired == ~getEmail(one, k, tokenStore[k].type, now).found
            sweepRemoves == ~MapHas(tokenCleanup(one, now), k)
            restoreDiscards ==
                ~MapHas(loadFromFile(EmptyMap, Serialize(one), now), k)
        IN  /\ lookupExpired <=> sweepRemoves
            /\ lookupExpired <=> restoreDiscards

----------------------------------------------------------------------------
(* Property of a login POST with a bad address, checked under SpecInput *)

\* C39: a POST /login without an address, or with one that misses the basic
\* pattern or is longer than 254 characters, answers 400 and leaves the OTP
\* ledger, hence the cooldown of the identity the address would normalize
\* to, the queue of outgoing mail and the token ledger as they were.
C39_BadAddressNoEffect ==
    [][( /\ resp = NoResp
         /\ resp'.op = "login"
         /\ mailQueue \subseteq mailQueue'
         /\ resp'.email = Str0 \/ ~validateEmail(resp'.email) )
          => /\ resp'.status = 400
             /\ otpStore' = otpStore
             /\ mailQueue' = mailQueue
             /\ issued' = issued
             /\ tokenStore' = tokenStore
             /\ canRequestOTP(otpStore', resp'.email, now).ok
                   = canRequestOTP(otpStore, resp'.email, now).ok]_vars

\* POST /login answered 400 to an address of 255 characters while the
\* identity of another address has a pending code
C39_Witness ==
    /\ resp.op = "login"
    /\ resp.status = 400
    /\ Len(resp.email) = 255
    /\ otpStore # EmptyMap
    /\ ~MapHas(otpStore, normalizeEmail(resp.email))

----------------------------------------------------------------------------
(* Property of a code POST with a missing field, checked under SpecOtp *)

\* C40: a POST /code without an address or without a code answers 400 with
\* the message that both are required and does not reach verifyOTP: the OTP
\* ledger, with the attempts of every entry, is as it was, no token is
\* minted and no cookie is set.
C40_MissingFieldNoEffect ==
    [][( /\ resp = NoResp
         /\ resp'.op = "code"
         /\ resp'.email = Str0 \/ resp'.code = Str0 )
          => /\ resp'.status = 400
             /\ resp'.body = EmailAndCodeRequired
             /\ resp'.setCookie = Str0
             /\ otpStore' = otpStore
             /\ tokenStore' = tokenStore
             /\ nextToken' = nextToken
             /\ issued' = issued
             /\ wrongGuesses' = wrongGuesses]_vars

\* POST /code without a code answered 400 for an identity whose pending
\* entry had counted one attempt, and the count is still one
C40_Witness ==
    /\ resp.op = "code"
    /\ resp.status = 400
    /\ resp.code = Str0
    /\ resp.email # Str0
    /\ MapHas(otpStore, normalizeEmail(resp.email))
    /\ otpStore[normalizeEmail(resp.email)].attempts = 1
    /\ ~(now > otpStore[normalizeEmail(resp.email)].expiresAt)

====
